---- MODULE Spec2Model ----
(***************************************************************************)
(* A model of FlakersStudio's governance engine, chat path, cooperative    *)
(* cancellation checker and the two-phase ingestion pipeline               *)
(* (src/server/app/services, src/server/app/api/routes).                   *)
(*                                                                         *)
(* Similarity scores are hundredths: 0.7 is 70.                            *)
(***************************************************************************)
EXTENDS Integers, Sequences, FiniteSets, TLC

VARIABLES
    engine,      \* the GovernanceEngine object (its attributes), or NoValue
    lastEval,    \* inputs and GovernanceDecision of the latest evaluate_query
    againEval,   \* GovernanceDecision of a repeated call on lastEval's inputs
    chat,        \* outcome of the latest chat_query request
    project,     \* projects table: the row of the one project
    deletion,    \* an initiate_deletion request in flight (its position)
    jobs,        \* ingestion_jobs table: job id -> row (or NoValue)
    urls,        \* ingestion_urls table: job id -> sequence of URL rows
    disc,        \* _execute_discovery background task of each job
    ing,         \* _process_ingestion background tasks
    qdrant,      \* vector store: job id -> upsert calls made and points stored
    hist,        \* observations of the run (which events happened in which order)
    checker,     \* a CancellationChecker object, or NoValue
    lastCheck,   \* outcome of the latest check_cancellation call
    lastCancel,  \* outcome of the latest request_job_cancellation call
    progress,    \* the latest report of ProgressReporter.get_job_progress
    stream,      \* the ingestion progress stream of a request (its generator)
    stale,       \* job id -> its started_at is older than the maximum age
    lastSweep,   \* the latest cleanup_stale_jobs run: table before and after
    idlog,       \* chunk identifiers generated so far, with their inputs
    scraper,     \* a WebScraperService run and the URL rows stored from it
    admin,       \* project deletion requests in flight and their outcomes
    lastStatus,  \* outcome of the latest status request (route and tables)
    chunker      \* a _chunk_text call: its locals, while running and on return

govVars == <<engine, lastEval, againEval, chat>>
pipeVars == <<project, deletion, jobs, urls, disc, ing, qdrant, hist,
              lastCancel>>
checkerVars == <<checker, lastCheck>>
readerVars == <<progress, stream>>
adminVars == <<admin, lastStatus, chunker>>
sideVars == <<stale, lastSweep, idlog, scraper, admin, lastStatus,
              chunker>>
vars == <<engine, lastEval, againEval, chat, project, deletion, jobs, urls,
          disc, ing, qdrant, hist, checker, lastCheck, lastCancel, progress,
          stream, stale, lastSweep, idlog,
          scraper, admin, lastStatus, chunker>>

NoValue == "None"

\* an object reference that is None (comparable with records)
Nothing == [nothing |-> TRUE]

\* ------------------------------------------------------------------------
\* Bounds of the model
\* ------------------------------------------------------------------------
MaxChunks == 2      \* longest candidate list handed to evaluate_query
MaxMessages == 2    \* chat messages logged in a run
MaxPages == 2       \* pages one scrape returns at most
MaxPageChunks == 1  \* chunks one page is split into at most
MaxIngestTasks == 2 \* start-ingestion requests issued for one job
MaxChecks == 21     \* check_cancellation calls made on one checker
MaxPolls == 3       \* polls after which the progress stream times out
MaxTokens == 3      \* tokens in the content of a page at most
MaxChunkTokens == 2 \* tokens per chunk (settings.MAX_CONTENT_LENGTH, scaled)
ChunkOverlap == 1   \* tokens two chunks share (settings.CHUNK_OVERLAP, scaled)
MinCleanLength == 1 \* shortest cleaned content that is processed (50, scaled)
HashSpace == 3      \* number of values a digest can take
MaxIds == 3         \* chunk identifiers generated in a run
MaxLinks == 2       \* links on the homepage at most
MaxScrapePages == 3 \* ScrapingConfig.max_pages of the scrape
MaxTextLen == 4     \* tokens in a text handed to _chunk_text at most

\* ------------------------------------------------------------------------
\* Python dictionaries: a dict is a function; d.get(k, default)
\* ------------------------------------------------------------------------
EmptyDict == [k \in {} |-> 0]

Get(d, k, default) == IF k \in DOMAIN d THEN d[k] ELSE default

\* ------------------------------------------------------------------------
\* Governance engine (services/governance.py)
\* ------------------------------------------------------------------------
DefaultThreshold == 70

Tenants == {"t1", "t2"}

\* Candidate chunks as search_similar_content could hand them over: dicts
\* carrying intent, score and the tenant the chunk is attributable to; some
\* lack a key, so that the .get defaults are exercised.
ChunkPool ==
    {[intent |-> "pricing", score |-> 90, tenant_id |-> "t1"],
     [intent |-> "faq", score |-> 50, tenant_id |-> "t1"],
     [intent |-> "faq", score |-> 70, tenant_id |-> "t1"],
     [intent |-> "faq", score |-> 90, tenant_id |-> "t2"],
     [intent |-> "support", score |-> 60, tenant_id |-> "t1",
      is_policy_content |-> TRUE],
     [score |-> 90, tenant_id |-> "t1", requires_attribution |-> FALSE],
     [intent |-> "faq", tenant_id |-> "t1"]}

SeqsUpTo(S, n) == UNION {[1..k -> S] : k \in 0..n}

CandidateLists == SeqsUpTo(ChunkPool, MaxChunks)

\* assistant_config dicts handed to GovernanceEngine.__init__
AssistantConfigs ==
    {[id |-> "a1", governance_rules |-> g, allowed_intents |-> a] :
        g \in {EmptyDict, [confidence_threshold |-> 50],
               [confidence_threshold |-> 90]},
        a \in {{}, {"faq", "support"}, {"pricing"}}}
    \cup {[id |-> "a1"]}

GovernanceEngineInit(assistant_config) ==
    [assistant_id |-> assistant_config["id"],
     governance_rules |-> Get(assistant_config, "governance_rules", EmptyDict),
     allowed_intents |-> Get(assistant_config, "allowed_intents", {}),
     template |-> Get(assistant_config, "template", "support")]

\* GovernanceDecision.__init__: absent lists become empty lists
GovernanceDecision(decision, reason, allowed_context, rules_applied) ==
    [decision |-> decision, reason |-> reason,
     allowed_context |-> allowed_context, rules_applied |-> rules_applied]

_check_tenant_isolation(self, chunks, tenant_id) == FALSE

\* mutant: the empty-list test is left out, so an empty allowed_intents
\* admits no chunk
_filter_by_intent_always(self, chunks) ==
    SelectSeq(chunks,
        LAMBDA c : Get(c, "intent", "unknown") \in self.allowed_intents)

_filter_by_intent(self, chunks) ==
    IF self.allowed_intents = {}
    THEN chunks
    ELSE SelectSeq(chunks,
             LAMBDA c : Get(c, "intent", "unknown") \in self.allowed_intents)

\* mutant: strict comparison with the threshold
_filter_by_confidence_strict(self, chunks, threshold) ==
    SelectSeq(chunks, LAMBDA c : Get(c, "score", 0) > threshold)

_filter_by_confidence(self, chunks, threshold) ==
    SelectSeq(chunks, LAMBDA c : Get(c, "score", 0) >= threshold)

\* mutant: the rules list is shared between calls instead of local to one
SharedRulesApplied(previous) == previous

\* rules_applied = []  (a list local to each call)
FreshRulesApplied(previous) == <<>>

evaluate_query(self, retrieved_chunks, tenant_id, previous) ==
    LET r0 == FreshRulesApplied(previous)
        r1 == Append(r0, "require_context")
        r2 == Append(r1, "tenant_isolation")
        allowed_chunks == _filter_by_intent(self, retrieved_chunks)
        r3 == Append(r2, "intent_filtering")
        high == _filter_by_confidence(self, allowed_chunks, DefaultThreshold)
        r4 == Append(r3, "confidence_threshold")
        r5 == IF \E i \in 1..Len(high) : Get(high[i], "is_policy_content", FALSE)
              THEN Append(r4, "policy_quote_only") ELSE r4
        r6 == IF \E i \in 1..Len(high) : Get(high[i], "requires_attribution", TRUE)
              THEN Append(r5, "attribution_required") ELSE r5
    IN  IF retrieved_chunks = <<>>
        THEN GovernanceDecision("REFUSE", "NO_CONTEXT", <<>>,
                                <<"require_context">>)
        ELSE IF _check_tenant_isolation(self, retrieved_chunks, tenant_id)
        THEN GovernanceDecision("REFUSE", "CROSS_TENANT", <<>>,
                                Append(r1, "tenant_isolation"))
        ELSE IF allowed_chunks = <<>>
        THEN GovernanceDecision("REFUSE", "OUT_OF_SCOPE", <<>>,
                                Append(r2, "intent_filtering"))
        ELSE IF high = <<>>
        THEN GovernanceDecision("REFUSE", "INSUFFICIENT_CONFIDENCE", <<>>,
                                Append(r3, "confidence_threshold"))
        ELSE GovernanceDecision("ANSWER", NoValue, high, r6)

\* the rules list of the decision object returned last (empty before any call)
PreviousRules == IF lastEval = Nothing THEN <<>> ELSE lastEval.out.rules_applied

NewEngine ==
    /\ \E cfg \in AssistantConfigs : engine' = GovernanceEngineInit(cfg)
    /\ lastEval' = Nothing
    /\ againEval' = Nothing
    /\ UNCHANGED <<chat, pipeVars, checkerVars, readerVars, sideVars>>

EvaluateQuery ==
    /\ engine # Nothing
    /\ \E chunks \in CandidateLists, t \in Tenants :
          lastEval' = [chunks |-> chunks, tenant_id |-> t,
                       out |-> evaluate_query(engine, chunks, t, PreviousRules)]
    /\ againEval' = Nothing
    /\ UNCHANGED <<engine, chat, pipeVars, checkerVars, readerVars,
                   sideVars>>

\* a second call with the inputs of the latest call
ReEvaluateQuery ==
    /\ engine # Nothing
    /\ lastEval # Nothing
    /\ againEval' = evaluate_query(engine, lastEval.chunks, lastEval.tenant_id,
                                   PreviousRules)
    /\ UNCHANGED <<engine, lastEval, chat, pipeVars, checkerVars, readerVars,
                   sideVars>>

\* ------------------------------------------------------------------------
\* Chat path (api/routes/chat.py)
\* ------------------------------------------------------------------------
RetrievalThreshold == 55

\* search_similar_content: hits of the assistant's collection whose score
\* reaches score_threshold, each carrying its score
RetrievedLists ==
    SeqsUpTo({c \in ChunkPool :
                 "score" \in DOMAIN c /\ c.score >= RetrievalThreshold},
             MaxChunks)

\* rows of the assistants table that _get_assistant may return
Assistants ==
    {Nothing,
     [id |-> "a1", tenant_id |-> "t1", status |-> "creating",
      allowed_intents |-> {}],
     [id |-> "a1", tenant_id |-> "t1", status |-> "ready",
      allowed_intents |-> {}],
     [id |-> "a1", tenant_id |-> "t1", status |-> "ready",
      allowed_intents |-> {"faq", "support"}]}

HttpError(assistant, code) ==
    [assistant |-> assistant, http |-> code, decision |-> NoValue,
     answer_by_model |-> FALSE, retrieved_chunks |-> <<>>,
     rules_applied |-> <<>>, governance_evaluated |-> FALSE]

\* chat_query: the response (or HTTP error) for one request.  small_talk is
\* _is_small_talk(user_message); llm_ok is whether generate_response returns.
\* Every HTTPException raised inside the try block is caught by the handler
\* at its end and re-raised as a 500.
chat_query(assistant, retrieved_chunks, small_talk, llm_ok) ==
    IF assistant = Nothing THEN HttpError(assistant, 500)
    ELSE IF assistant.status # "ready" THEN HttpError(assistant, 500)
    ELSE IF ~llm_ok THEN HttpError(assistant, 500)
    ELSE IF retrieved_chunks = <<>>
    THEN [assistant |-> assistant, http |-> 200, decision |-> "ANSWER",
          answer_by_model |-> TRUE, retrieved_chunks |-> retrieved_chunks,
          rules_applied |-> <<"No context found - general response">>,
          governance_evaluated |-> FALSE]
    ELSE [assistant |-> assistant, http |-> 200, decision |-> "ANSWER",
          answer_by_model |-> TRUE, retrieved_chunks |-> retrieved_chunks,
          rules_applied |-> <<>>, governance_evaluated |-> FALSE]

\* one request: the response, and the ChatMessage row _log_chat_message adds
\* for a response that was produced (its decision column)
ChatQuery ==
    /\ Len(chat.log) < MaxMessages
    /\ \E a \in Assistants, chunks \in RetrievedLists,
          small_talk \in BOOLEAN, llm_ok \in BOOLEAN :
          LET r == chat_query(a, chunks, small_talk, llm_ok)
          IN  chat' = [resp |-> r,
                       log |-> IF r.http = 200
                               THEN Append(chat.log, r.decision)
                               ELSE chat.log]
    /\ UNCHANGED <<engine, lastEval, againEval, pipeVars, checkerVars, readerVars,
                   sideVars>>

\* ------------------------------------------------------------------------
\* Jobs, URL rows and the project (models/content.py, models/project.py)
\* ------------------------------------------------------------------------
JobIds == {"j1"}

TaskIds == 1..MaxIngestTasks

\* NULL in a nullable integer column
Null == -1

\* mutant: the chunk total starts at 0 instead of NULL
NewJobZeroChunks ==
    [status |-> "running", current_stage |-> "discovery",
     total_urls_discovered |-> 0, urls_scraped |-> 0, urls_processed |-> 0,
     urls_completed |-> 0, total_chunks_created |-> 0,
     chunks_uploaded |-> 0, errors_count |-> 0, error_details |-> <<>>,
     cancellation_requested |-> FALSE, cancellation_reason |-> NoValue]

\* IngestionJob(...) as both creators build it: status running, stage
\* discovery, every other column at its default
NewJob ==
    [status |-> "running", current_stage |-> "discovery",
     total_urls_discovered |-> 0, urls_scraped |-> 0, urls_processed |-> 0,
     urls_completed |-> 0, total_chunks_created |-> Null,
     chunks_uploaded |-> 0, errors_count |-> 0, error_details |-> <<>>,
     cancellation_requested |-> FALSE, cancellation_reason |-> NoValue]

\* the columns the background tasks assign
TaskColumns ==
    {"status", "current_stage", "total_urls_discovered", "urls_scraped",
     "urls_processed", "urls_completed", "total_chunks_created",
     "chunks_uploaded"}

\* db.get(IngestionJob, job_id): the job object of a session, kept here for
\* the columns the tasks assign (no task reads another column of it)
Loaded(row) == [k \in TaskColumns |-> row[k]]

\* session.commit(): the UPDATE carries the columns whose value differs from
\* what the session loaded or last wrote (expire_on_commit=False, so the
\* session never re-reads the row)
Flush(row, loaded, obj) ==
    [k \in DOMAIN row |->
        IF k \in DOMAIN obj /\ obj[k] # loaded[k] THEN obj[k] ELSE row[k]]

\* what the scraper returns: for each page the number of chunks its content
\* will be split into
ScrapeResults == SeqsUpTo(0..MaxPageChunks, MaxPages)

\* raised_in: the step of the task whose exception reached the handler
IdleTask == [pc |-> "idle", job |-> Nothing, n_urls |-> 0, n_chunks |-> 0,
             n_vectors |-> 0, n_points |-> 0, raised_in |-> NoValue]

\* ------------------------------------------------------------------------
\* Discovery (services/content_discovery.py)
\* ------------------------------------------------------------------------
\* start_discovery: the job row is committed and the background task created
StartDiscovery(j) ==
    /\ jobs[j] = Nothing
    /\ jobs' = [jobs EXCEPT ![j] = NewJob]
    /\ disc' = [disc EXCEPT ![j] = [pc |-> "load", job |-> Nothing,
                                    pages |-> <<>>]]
    /\ UNCHANGED <<project, deletion, urls, ing, qdrant, hist, lastCancel,
                   govVars, checkerVars, readerVars, sideVars>>

\* _execute_discovery: job = await db.get(IngestionJob, job_id)
DiscLoad(j) ==
    /\ disc[j].pc = "load"
    /\ disc' = [disc EXCEPT ![j].pc = "scrape", ![j].job = Loaded(jobs[j])]
    /\ UNCHANGED <<project, deletion, jobs, urls, ing, qdrant, hist,
                   lastCancel, govVars, checkerVars, readerVars,
                   sideVars>>

\* scrape_website_parallel returns; no page raises, otherwise the page count
\* and stage "storing" are committed
DiscScrape(j) ==
    /\ disc[j].pc = "scrape"
    /\ \E pages \in ScrapeResults :
          IF pages = <<>>
          THEN /\ disc' = [disc EXCEPT ![j].pc = "except"]
               /\ jobs' = jobs
          ELSE LET obj == [disc[j].job EXCEPT
                               !.total_urls_discovered = Len(pages),
                               !.current_stage = "storing"]
               IN  /\ jobs' = [jobs EXCEPT
                                  ![j] = Flush(jobs[j], disc[j].job, obj)]
                   /\ disc' = [disc EXCEPT ![j].pc = "store", ![j].job = obj,
                                           ![j].pages = pages]
    /\ UNCHANGED <<project, deletion, urls, ing, qdrant, hist, lastCancel,
                   govVars, checkerVars, readerVars, sideVars>>

\* mutant: discovery creates the ingestion task itself
DiscStoreChained(j) ==
    /\ disc[j].pc = "store"
    /\ LET obj == [disc[j].job EXCEPT
                       !.status = "running",
                       !.current_stage = "discovery_complete",
                       !.urls_scraped = Len(disc[j].pages)]
       IN  /\ jobs' = [jobs EXCEPT ![j] = Flush(jobs[j], disc[j].job, obj)]
           /\ disc' = [disc EXCEPT ![j].pc = "done", ![j].job = obj]
    /\ urls' = [urls EXCEPT ![j] =
                  [i \in 1..Len(disc[j].pages) |->
                      [status |-> "scraped", content_chunks |-> disc[j].pages[i],
                       chunk_count |-> Null]]]
    /\ ing' = [ing EXCEPT ![j][1].pc = "load"]
    /\ UNCHANGED <<project, deletion, qdrant, hist, lastCancel, govVars,
                   checkerVars, readerVars, sideVars>>

\* the URL rows are added and the job is committed as discovery_complete
DiscStore(j) ==
    /\ disc[j].pc = "store"
    /\ LET obj == [disc[j].job EXCEPT
                       !.status = "running",
                       !.current_stage = "discovery_complete",
                       !.urls_scraped = Len(disc[j].pages)]
       IN  /\ jobs' = [jobs EXCEPT ![j] = Flush(jobs[j], disc[j].job, obj)]
           /\ disc' = [disc EXCEPT ![j].pc = "done", ![j].job = obj]
    /\ urls' = [urls EXCEPT ![j] =
                  [i \in 1..Len(disc[j].pages) |->
                      [status |-> "scraped", content_chunks |-> disc[j].pages[i],
                       chunk_count |-> Null]]]
    /\ UNCHANGED <<project, deletion, ing, qdrant, hist, lastCancel, govVars,
                   checkerVars, readerVars, sideVars>>

\* the failure handler of a background task: a new session loads the job and
\* commits status failed with one error entry
\* mutant: the failure handler also resets the discovery total
MarkFailedReset(row) ==
    [row EXCEPT !.status = "failed", !.errors_count = 1,
                !.error_details = <<"error">>, !.total_urls_discovered = 0]

MarkFailed(row) ==
    [row EXCEPT !.status = "failed", !.errors_count = 1,
                !.error_details = <<"error">>]

DiscExcept(j) ==
    /\ disc[j].pc = "except"
    /\ jobs' = [jobs EXCEPT ![j] = MarkFailed(jobs[j])]
    /\ disc' = [disc EXCEPT ![j].pc = "done"]
    /\ UNCHANGED <<project, deletion, urls, ing, qdrant, hist, lastCancel,
                   govVars, checkerVars, readerVars, sideVars>>

\* the handler's own session fails (db.get or commit raises): the error is
\* logged, the job row stays as it is and the task ends
DiscExceptFails(j) ==
    /\ disc[j].pc = "except"
    /\ disc' = [disc EXCEPT ![j].pc = "done"]
    /\ UNCHANGED <<project, deletion, jobs, urls, ing, qdrant, hist,
                   lastCancel, govVars, checkerVars, readerVars, sideVars>>

\* scrape_website_master.run_scrape (api/routes/projects.py), the other
\* creator of a job: the row is committed running / discovery
ScrapeMasterStart(j) ==
    /\ jobs[j] = Nothing
    /\ project.status = "active"
    /\ jobs' = [jobs EXCEPT ![j] = NewJob]
    /\ disc' = [disc EXCEPT ![j] = [pc |-> "route_scrape",
                                    job |-> Loaded(NewJob), pages |-> <<>>]]
    /\ UNCHANGED <<project, deletion, urls, ing, qdrant, hist, lastCancel,
                   govVars, checkerVars, readerVars, sideVars>>

\* the scrape returns: with pages, the totals, stage discovery_complete and
\* the URL rows go into one commit; with no page the exception is caught,
\* the session rolled back and the job row left as it is
ScrapeMasterRun(j) ==
    /\ disc[j].pc = "route_scrape"
    /\ \E pages \in ScrapeResults :
          IF pages = <<>>
          THEN /\ disc' = [disc EXCEPT ![j].pc = "route_raised"]
               /\ UNCHANGED <<jobs, urls>>
          ELSE LET obj == [disc[j].job EXCEPT
                               !.total_urls_discovered = Len(pages),
                               !.urls_scraped = Len(pages),
                               !.status = "running",
                               !.current_stage = "discovery_complete"]
               IN  /\ jobs' = [jobs EXCEPT
                                  ![j] = Flush(jobs[j], disc[j].job, obj)]
                   /\ urls' = [urls EXCEPT ![j] =
                         [i \in 1..Len(pages) |->
                             [status |-> "scraped", content_chunks |-> pages[i],
                              chunk_count |-> Null]]]
                   /\ disc' = [disc EXCEPT ![j].pc = "done", ![j].job = obj,
                                           ![j].pages = pages]
    /\ UNCHANGED <<project, deletion, ing, qdrant, hist, lastCancel, govVars,
                   checkerVars, readerVars, sideVars>>

\* ------------------------------------------------------------------------
\* Ingestion (api/routes/projects.py, services/ingestion.py)
\* ------------------------------------------------------------------------
\* ingest_website_content: the route finds a running job in discovery_complete
IngestSelect(j, t) ==
    /\ ing[j][t].pc = "idle"
    /\ jobs[j] # Nothing
    /\ jobs[j].status = "running"
    /\ jobs[j].current_stage = "discovery_complete"
    /\ ing' = [ing EXCEPT ![j][t].pc = "requested"]
    /\ hist' = [hist EXCEPT !.ingest_requested[j] = TRUE]
    /\ UNCHANGED <<project, deletion, jobs, urls, disc, qdrant, lastCancel,
                   govVars, checkerVars, readerVars, sideVars>>

\* start_ingestion: the background task is created
StartIngestion(j, t) ==
    /\ ing[j][t].pc = "requested"
    /\ ing' = [ing EXCEPT ![j][t].pc = "load"]
    /\ UNCHANGED <<project, deletion, jobs, urls, disc, qdrant, hist,
                   lastCancel, govVars, checkerVars, readerVars,
                   sideVars>>

\* _process_ingestion: job = await db.get(IngestionJob, job_id)
IngLoad(j, t) ==
    /\ ing[j][t].pc = "load"
    /\ ing' = [ing EXCEPT ![j][t].pc = "guard", ![j][t].job = Loaded(jobs[j])]
    /\ UNCHANGED <<project, deletion, jobs, urls, disc, qdrant, hist,
                   lastCancel, govVars, checkerVars, readerVars,
                   sideVars>>

\* mutant: the guard forgets the last stage
InProgressStagesShort == {"processing", "embedding", "ingestion"}

InProgressStages == {"processing", "embedding", "ingestion", "storing"}

\* the guard on the loaded job, then status running / stage processing
IngGuard(j, t) ==
    /\ ing[j][t].pc = "guard"
    /\ LET job == ing[j][t].job
       IN  IF job.status = "completed" \/ job.current_stage \in InProgressStages
           THEN /\ ing' = [ing EXCEPT ![j][t].pc = "skipped"]
                /\ jobs' = jobs
           ELSE LET obj == [job EXCEPT !.status = "running",
                                       !.current_stage = "processing"]
                IN  /\ jobs' = [jobs EXCEPT ![j] = Flush(jobs[j], job, obj)]
                    /\ ing' = [ing EXCEPT ![j][t].pc = "select",
                                          ![j][t].job = obj]
    /\ UNCHANGED <<project, deletion, urls, disc, qdrant, hist, lastCancel,
                   govVars, checkerVars, readerVars, sideVars>>

Sum(f, n) == LET RECURSIVE S(_)
                 S(i) == IF i = 0 THEN 0 ELSE f[i] + S(i - 1)
             IN  S(n)

IsScraped(u) == u.status \in {"scraped", "processed"}

\* the scraped URL rows are read and chunked; every one of them becomes
\* processed, and the chunk and URL totals are committed
IngProcess(j, t) ==
    /\ ing[j][t].pc = "select"
    /\ LET n_urls == Cardinality({i \in 1..Len(urls[j]) : IsScraped(urls[j][i])})
           chunks == [i \in 1..Len(urls[j]) |->
                         IF IsScraped(urls[j][i])
                         THEN urls[j][i].content_chunks ELSE 0]
           n_chunks == Sum(chunks, Len(urls[j]))
       IN  IF n_urls = 0
           THEN /\ ing' = [ing EXCEPT ![j][t].pc = "except",
                                      ![j][t].raised_in = "select"]
                /\ UNCHANGED <<jobs, urls>>
           ELSE LET obj == [ing[j][t].job EXCEPT
                                !.total_chunks_created = n_chunks,
                                !.urls_processed = n_urls]
                IN  /\ urls' = [urls EXCEPT ![j] =
                          [i \in 1..Len(urls[j]) |->
                              IF IsScraped(urls[j][i])
                              THEN [urls[j][i] EXCEPT
                                       !.status = "processed",
                                       !.chunk_count = urls[j][i].content_chunks]
                              ELSE urls[j][i]]]
                    /\ jobs' = [jobs EXCEPT
                                   ![j] = Flush(jobs[j], ing[j][t].job, obj)]
                    /\ ing' = [ing EXCEPT ![j][t].pc = "to_embedding",
                                          ![j][t].job = obj,
                                          ![j][t].n_urls = n_urls,
                                          ![j][t].n_chunks = n_chunks]
    /\ UNCHANGED <<project, deletion, disc, qdrant, hist, lastCancel, govVars,
                   checkerVars, readerVars, sideVars>>

\* job.current_stage = stage; await db.commit()
CommitStage(j, t, stage) ==
    LET obj == [ing[j][t].job EXCEPT !.current_stage = stage]
    IN  /\ jobs' = [jobs EXCEPT ![j] = Flush(jobs[j], ing[j][t].job, obj)]
        /\ ing' = [ing EXCEPT ![j][t].job = obj, ![j][t].pc = stage]

IngEmbeddingStage(j, t) ==
    /\ ing[j][t].pc = "to_embedding"
    /\ CommitStage(j, t, "embedding")
    /\ UNCHANGED <<project, deletion, urls, disc, qdrant, hist, lastCancel,
                   govVars, checkerVars, readerVars, sideVars>>

\* embed_texts returns one vector per chunk, or raises
IngEmbed(j, t) ==
    /\ ing[j][t].pc = "embedding"
    /\ \E ok \in BOOLEAN :
          ing' = [ing EXCEPT ![j][t].pc = IF ok THEN "to_ingestion"
                                          ELSE "except",
                             ![j][t].n_vectors = IF ok THEN ing[j][t].n_chunks
                                                 ELSE @,
                             ![j][t].raised_in = IF ok THEN @ ELSE "embed"]
    /\ UNCHANGED <<project, deletion, jobs, urls, disc, qdrant, hist,
                   lastCancel, govVars, checkerVars, readerVars,
                   sideVars>>

\* embed_texts returns what the provider answered, which the code does not
\* count: here a list with fewer or more vectors than there are chunks
IngEmbedMiscount(j, t) ==
    /\ ing[j][t].pc = "embedding"
    /\ \E n \in (0..(ing[j][t].n_chunks + 1)) \ {ing[j][t].n_chunks} :
          ing' = [ing EXCEPT ![j][t].pc = "to_ingestion",
                             ![j][t].n_vectors = n]
    /\ UNCHANGED <<project, deletion, jobs, urls, disc, qdrant, hist,
                   lastCancel, govVars, checkerVars, readerVars,
                   sideVars>>

IngIngestionStage(j, t) ==
    /\ ing[j][t].pc = "to_ingestion"
    /\ CommitStage(j, t, "ingestion")
    /\ UNCHANGED <<project, deletion, urls, disc, qdrant, hist, lastCancel,
                   govVars, checkerVars, readerVars, sideVars>>

\* ensure_assistant_collection returns or raises
IngEnsureCollection(j, t) ==
    /\ ing[j][t].pc = "ingestion"
    /\ \E ok \in BOOLEAN :
          ing' = [ing EXCEPT ![j][t].pc = IF ok THEN "upload" ELSE "except",
                             ![j][t].raised_in =
                                 IF ok THEN @ ELSE "ensure_collection"]
    /\ UNCHANGED <<project, deletion, jobs, urls, disc, qdrant, hist,
                   lastCancel, govVars, checkerVars, readerVars,
                   sideVars>>

\* is a stop of the job asked for in the store: cancellation requested, or
\* the project no longer active
StopAsked(j) ==
    jobs[j].cancellation_requested \/ project.status # "active"

\* mutant: one point for every vector, whether or not a chunk goes with it
store_embeddings_per_vector(chunks, embeddings) == embeddings

\* store_embeddings: for i, (chunk, embedding) in enumerate(zip(chunks,
\* embeddings)) builds one point per pair, so as many as the shorter list
\* holds; the number of point ids returned
store_embeddings(chunks, embeddings) ==
    IF chunks < embeddings THEN chunks ELSE embeddings

\* store_embeddings: every chunk that has a vector is upserted under a new
\* point id
IngUpload(j, t) ==
    /\ ing[j][t].pc = "upload"
    /\ \E ok \in BOOLEAN :
          IF ok
          THEN /\ qdrant' = [qdrant EXCEPT
                                ![j].calls = @ + 1,
                                ![j].points =
                                    @ + store_embeddings(ing[j][t].n_chunks,
                                                         ing[j][t].n_vectors)]
               /\ ing' = [ing EXCEPT ![j][t].pc = "uploaded",
                                     ![j][t].n_points =
                                         store_embeddings(ing[j][t].n_chunks,
                                                          ing[j][t].n_vectors)]
               /\ hist' = [hist EXCEPT !.upsert_after_stop[j] =
                                          @ \/ StopAsked(j)]
          ELSE /\ ing' = [ing EXCEPT ![j][t].pc = "except",
                                     ![j][t].raised_in = "upload"]
               /\ UNCHANGED <<qdrant, hist>>
    /\ UNCHANGED <<project, deletion, jobs, urls, disc, lastCancel, govVars,
                   checkerVars, readerVars, sideVars>>

\* job.chunks_uploaded = len(point_ids); await db.commit()
IngUploaded(j, t) ==
    /\ ing[j][t].pc = "uploaded"
    /\ LET obj == [ing[j][t].job EXCEPT !.chunks_uploaded = ing[j][t].n_points]
       IN  /\ jobs' = [jobs EXCEPT ![j] = Flush(jobs[j], ing[j][t].job, obj)]
           /\ ing' = [ing EXCEPT ![j][t].job = obj, ![j][t].pc = "to_storing"]
    /\ UNCHANGED <<project, deletion, urls, disc, qdrant, hist, lastCancel,
                   govVars, checkerVars, readerVars, sideVars>>

IngStoringStage(j, t) ==
    /\ ing[j][t].pc = "to_storing"
    /\ CommitStage(j, t, "storing")
    /\ UNCHANGED <<project, deletion, urls, disc, qdrant, hist, lastCancel,
                   govVars, checkerVars, readerVars, sideVars>>

\* the ContentChunk rows are added and the job is committed as completed
IngComplete(j, t) ==
    /\ ing[j][t].pc = "storing"
    /\ LET obj == [ing[j][t].job EXCEPT !.status = "completed",
                                        !.current_stage = "completed",
                                        !.urls_completed = ing[j][t].n_urls]
       IN  /\ jobs' = [jobs EXCEPT ![j] = Flush(jobs[j], ing[j][t].job, obj)]
           /\ ing' = [ing EXCEPT ![j][t].job = obj, ![j][t].pc = "done"]
    /\ UNCHANGED <<project, deletion, urls, disc, qdrant, hist, lastCancel,
                   govVars, checkerVars, readerVars, sideVars>>

IngExcept(j, t) ==
    /\ ing[j][t].pc = "except"
    /\ jobs' = [jobs EXCEPT ![j] = MarkFailed(jobs[j])]
    /\ ing' = [ing EXCEPT ![j][t].pc = "done"]
    /\ UNCHANGED <<project, deletion, urls, disc, qdrant, hist, lastCancel,
                   govVars, checkerVars, readerVars, sideVars>>

\* the handler's own session fails: the error is logged, the job row stays as
\* it is and the task ends
IngExceptFails(j, t) ==
    /\ ing[j][t].pc = "except"
    /\ ing' = [ing EXCEPT ![j][t].pc = "done"]
    /\ UNCHANGED <<project, deletion, jobs, urls, disc, qdrant, hist,
                   lastCancel, govVars, checkerVars, readerVars, sideVars>>

\* ------------------------------------------------------------------------
\* Project deletion (services/project_deletion.py, services/cancellation.py)
\* ------------------------------------------------------------------------
\* cancel_all_project_jobs: every queued or running job of the project gets
\* cancellation_requested and the reason
cancel_all_project_jobs(table, reason) ==
    [j \in DOMAIN table |->
        IF table[j] # Nothing /\ table[j].status \in {"queued", "running"}
        THEN [table[j] EXCEPT !.cancellation_requested = TRUE,
                              !.cancellation_reason = reason]
        ELSE table[j]]

\* initiate_deletion up to its first commit: an active project is marked
\* deleting; a deleting or deleted one is left alone
InitiateDeletionMark ==
    /\ deletion = "none"
    /\ project.status = "active"
    /\ project' = [project EXCEPT !.status = "deleting"]
    /\ deletion' = "cancel_jobs"
    /\ hist' = [hist EXCEPT !.deleting_while_running =
                  [j \in JobIds |-> jobs[j] # Nothing
                                    /\ jobs[j].status = "running"]]
    /\ UNCHANGED <<jobs, urls, disc, ing, qdrant, lastCancel, govVars,
                   checkerVars, readerVars, sideVars>>

\* initiate_deletion, second commit: the project's jobs are cancelled
InitiateDeletionCancelJobs ==
    /\ deletion = "cancel_jobs"
    /\ jobs' = cancel_all_project_jobs(jobs, "Project deletion initiated")
    /\ deletion' = "none"
    /\ UNCHANGED <<project, urls, disc, ing, qdrant, hist, lastCancel,
                   govVars, checkerVars, readerVars, sideVars>>

\* ------------------------------------------------------------------------
\* Deletion routes (api/routes/projects.py, services/project_deletion.py)
\* ------------------------------------------------------------------------
\* no deletion request of the routes below is in flight
AdminIdle ==
    [bulk |-> "idle", loaded |-> NoValue, complete |-> "idle",
     result |-> NoValue]

\* delete_all_projects_for_tenant: the tenant's projects that are not deleted
\* are selected into the request's session, which keeps each Project object
\* with the status it was loaded with
BulkDeleteSelect ==
    /\ admin.bulk = "idle"
    /\ project.status # "deleted"
    /\ admin' = [admin EXCEPT !.bulk = "selected", !.loaded = project.status]
    /\ UNCHANGED <<pipeVars, govVars, checkerVars, readerVars, stale,
                   lastSweep, idlog, scraper, lastStatus, chunker>>

\* delete_all_projects_for_tenant, loop body: initiate_deletion runs on the
\* request's session; its select returns the Project object the session
\* already holds, so the status tests read the status loaded by the route
BulkDeleteInitiate ==
    /\ admin.bulk = "selected"
    /\ deletion = "none"
    /\ IF admin.loaded = "deleting"
       THEN /\ admin' = [admin EXCEPT
                             !.bulk = "idle", !.loaded = NoValue,
                             !.result =
                                 "Project deletion already in progress"]
            /\ UNCHANGED <<project, deletion, hist>>
       ELSE /\ project' = [project EXCEPT !.status = "deleting"]
            /\ deletion' = "cancel_jobs"
            /\ hist' = [hist EXCEPT !.deleting_while_running =
                          [j \in JobIds |-> jobs[j] # Nothing
                                            /\ jobs[j].status = "running"]]
            /\ admin' = [admin EXCEPT
                             !.bulk = "idle", !.loaded = NoValue,
                             !.result = "Project deletion initiated"]
    /\ UNCHANGED <<jobs, urls, disc, ing, qdrant, lastCancel, govVars,
                   checkerVars, readerVars, stale, lastSweep, idlog, scraper,
                   lastStatus, chunker>>

\* complete_deletion up to the query for running jobs: a project that is not
\* deleting, or one with a queued or running job, gets an error; otherwise
\* the vector collections are deleted next
CompleteDeletionCheck ==
    /\ admin.complete = "idle"
    /\ LET running_jobs ==
               {j \in JobIds : jobs[j] # Nothing
                               /\ jobs[j].status \in {"queued", "running"}}
       IN  admin' =
               IF project.status # "deleting"
               THEN [admin EXCEPT
                         !.result = "Project not in deleting state"]
               ELSE IF running_jobs # {}
               THEN [admin EXCEPT
                         !.result =
                             "Cannot complete deletion - jobs still running"]
               ELSE [admin EXCEPT !.complete = "cleanup"]
    /\ UNCHANGED <<pipeVars, govVars, checkerVars, readerVars, stale,
                   lastSweep, idlog, scraper, lastStatus, chunker>>

\* complete_deletion after the collections were deleted:
\* project.status = ProjectStatus.DELETED; await db.commit()
CompleteDeletionCommit ==
    /\ admin.complete = "cleanup"
    /\ project' = [project EXCEPT !.status = "deleted"]
    /\ admin' = [admin EXCEPT !.complete = "idle",
                              !.result = "Project deletion completed"]
    /\ UNCHANGED <<deletion, jobs, urls, disc, ing, qdrant, hist, lastCancel,
                   govVars, checkerVars, readerVars, stale, lastSweep, idlog,
                   scraper, lastStatus, chunker>>

\* ------------------------------------------------------------------------
\* Cancellation requests (services/cancellation.py)
\* ------------------------------------------------------------------------
\* mutant: any job that is not completed can be cancelled
CancellableLoose(status) == status # "completed"

\* if job.status in ["queued", "running"]
Cancellable(status) == status \in {"queued", "running"}

\* mutant: an accepted request also moves the job to status cancelled
AcceptCancellationStatus(job, reason) ==
    [job EXCEPT !.status = "cancelled", !.cancellation_requested = TRUE,
                !.cancellation_reason =
                    IF reason = NoValue THEN "User requested cancellation"
                    ELSE reason]

\* job.cancellation_requested = True
\* job.cancellation_reason = reason or "User requested cancellation"
AcceptCancellation(job, reason) ==
    [job EXCEPT !.cancellation_requested = TRUE,
                !.cancellation_reason =
                    IF reason = NoValue THEN "User requested cancellation"
                    ELSE reason]

\* request_job_cancellation: the table after the call and the value returned
request_job_cancellation(table, job_id, reason) ==
    IF job_id \notin DOMAIN table \/ table[job_id] = Nothing
    THEN [table |-> table, returned |-> FALSE]
    ELSE IF Cancellable(table[job_id].status)
    THEN [table |-> [table EXCEPT
                        ![job_id] = AcceptCancellation(table[job_id], reason)],
          returned |-> TRUE]
    ELSE [table |-> table, returned |-> FALSE]

CancelReasons == {NoValue, "operator stop"}

\* one call; lastCancel keeps the job id and the result, and a bit that flips
\* with every call
RequestJobCancellation ==
    /\ \E job_id \in JobIds \cup {"unknown"}, reason \in CancelReasons :
          LET r == request_job_cancellation(jobs, job_id, reason)
          IN  /\ jobs' = r.table
              /\ lastCancel' = [job_id |-> job_id, returned |-> r.returned,
                                flip |-> IF lastCancel = Nothing THEN FALSE
                                         ELSE ~lastCancel.flip]
    /\ UNCHANGED <<project, deletion, urls, disc, ing, qdrant, hist, govVars,
                   checkerVars, readerVars, sideVars>>

\* ------------------------------------------------------------------------
\* Cancellation checker (services/cancellation.py)
\* ------------------------------------------------------------------------
RefreshInterval == 10

\* CancellationChecker.__init__
CancellationCheckerInit(job_id) ==
    [job_id |-> job_id, cached_job_status |-> NoValue,
     cached_project_status |-> NoValue, check_count |-> 0]

\* where a refresh can raise: nowhere, in the job query, in the project query
RefreshFaults == {"none", "job_query", "project_query"}

\* _refresh_cache: the job status (cancelled when cancellation is requested)
\* and the project status are read into the cache; an exception ends the
\* refresh where it occurs and is swallowed
_refresh_cache(self, table, proj, fault) ==
    LET row == IF self.job_id \in DOMAIN table THEN table[self.job_id]
               ELSE Nothing
        job_status ==
            IF row = Nothing THEN self.cached_job_status
            ELSE IF row.cancellation_requested /\ row.status # "cancelled"
            THEN "cancelled"
            ELSE row.status
    IN  IF fault = "job_query" THEN self
        ELSE IF fault = "project_query"
        THEN [self EXCEPT !.cached_job_status = job_status]
        ELSE [self EXCEPT !.cached_job_status = job_status,
                          !.cached_project_status = proj.status]

\* what the call raises from the cache ("none": the call returns)
Raised(self) ==
    IF self.cached_project_status # "active"
    THEN "project_deleted"
    ELSE IF self.cached_job_status = "cancelled"
    THEN "job_cancelled"
    ELSE IF self.cached_job_status = "failed"
    THEN "job_failed"
    ELSE "none"

\* mutant: the job's status is tested before the project's
check_cancellation_job_first(self, table, proj, fault) ==
    LET counted == [self EXCEPT !.check_count = @ + 1]
        cur == IF counted.check_count % RefreshInterval = 0
               THEN _refresh_cache(counted, table, proj, fault)
               ELSE counted
    IN  [self |-> cur,
         raised |-> IF cur.cached_job_status = "cancelled"
                    THEN "job_cancelled"
                    ELSE IF cur.cached_job_status = "failed"
                    THEN "job_failed"
                    ELSE IF cur.cached_project_status # "active"
                    THEN "project_deleted"
                    ELSE "none"]

\* mutant: the cache is refreshed on every 2N-th call only
check_cancellation_sparse(self, table, proj, fault) ==
    LET counted == [self EXCEPT !.check_count = @ + 1]
        cur == IF counted.check_count % (2 * RefreshInterval) = 0
               THEN _refresh_cache(counted, table, proj, fault)
               ELSE counted
    IN  [self |-> cur, raised |-> Raised(cur)]

\* check_cancellation: the checker after the call, and what was raised
\* ("none": the call returned)
check_cancellation(self, table, proj, fault) ==
    LET counted == [self EXCEPT !.check_count = @ + 1]
        cur == IF counted.check_count % RefreshInterval = 0
               THEN _refresh_cache(counted, table, proj, fault)
               ELSE counted
    IN  [self |-> cur, raised |-> Raised(cur)]

NewChecker ==
    /\ \E j \in JobIds : checker' = CancellationCheckerInit(j)
    /\ lastCheck' = Nothing
    /\ UNCHANGED <<pipeVars, govVars, readerVars, sideVars>>

\* the store holds a reason to stop the job: its project is not active, or
\* cancellation of the job has been requested
StopStored(table, proj, job_id) ==
    \/ proj.status # "active"
    \/ table[job_id] # Nothing /\ table[job_id].cancellation_requested

\* one call on the checker; lastCheck keeps what was raised, what the store
\* held for the job and the project when the call was made, the cache before
\* the call, where the refresh failed ("none" also when the call made no
\* refresh), and, while the store holds a reason to stop, the number of calls
\* in a row that returned (quiet) and whether a refresh among them failed
CheckCancellation ==
    /\ checker # Nothing
    /\ checker.check_count < MaxChecks
    /\ \E fault \in RefreshFaults :
          LET r == check_cancellation(checker, jobs, project, fault)
              refreshing == (checker.check_count + 1) % RefreshInterval = 0
              stop == StopStored(jobs, project, checker.job_id)
              counting == stop /\ r.raised = "none"
          IN  /\ fault # "none" => refreshing
              /\ checker' = r.self
              /\ lastCheck' =
                    [raised |-> r.raised,
                     call |-> r.self.check_count,
                     job |-> jobs[checker.job_id],
                     project_status |-> project.status,
                     fault |-> fault,
                     before_job_status |-> checker.cached_job_status,
                     before_project_status |-> checker.cached_project_status,
                     quiet |-> IF ~counting THEN 0
                               ELSE IF lastCheck = Nothing THEN 1
                               ELSE lastCheck.quiet + 1,
                     refresh_failed |->
                         counting /\ (\/ fault # "none"
                                      \/ /\ lastCheck # Nothing
                                         /\ lastCheck.quiet > 0
                                         /\ lastCheck.refresh_failed)]
    /\ UNCHANGED <<pipeVars, govVars, readerVars, sideVars>>

\* ------------------------------------------------------------------------
\* Content processor (services/content_processor.py)
\* ------------------------------------------------------------------------
\* a text is the sequence of its tokens; "#" stands for the characters that
\* _clean_text removes
Tokens == {"a", "#"}

PageUrls == {"u1", "u2"}

PageTexts == SeqsUpTo(Tokens, MaxTokens)

\* the number a character string stands for when it is hashed
Code(x) ==
    CASE x = "a" -> 1 [] x = "#" -> 2 [] x = "u1" -> 3 [] x = "u2" -> 4
      [] x = "start" -> 5 [] x = "doc.pdf" -> 6

\* a digest: a fixed function of the input with finitely many values, so
\* that different inputs can share one
Digest(codes) ==
    Sum([i \in 1..Len(codes) |-> i * codes[i]], Len(codes)) % HashSpace

\* hashlib.md5(text).hexdigest()
md5(text) == <<"md5", Digest([i \in 1..Len(text) |-> Code(text[i])])>>

\* hashlib.sha256(composite).hexdigest()[:16] of the composite
\* f"{url}:{chunk_index}:{content_hash}"
sha256_16(url, chunk_index, content_hash) ==
    <<"sha256", Digest(<<Code(url), chunk_index, content_hash[2]>>)>>

ContentProcessorInit ==
    [max_chunk_size |-> MaxChunkTokens, chunk_overlap |-> ChunkOverlap]

\* mutant: the identifier also depends on how many were generated before
_generate_counted_chunk_id(self, url, chunk_index, content_hash) ==
    <<"chunk_", sha256_16(url, chunk_index + Len(idlog), content_hash)>>

_generate_deterministic_chunk_id(self, url, chunk_index, content_hash) ==
    <<"chunk_", sha256_16(url, chunk_index, content_hash)>>

Kept(c) == c # "#"

_clean_text(self, text) == SelectSeq(text, Kept)

\* a token that holds only whitespace
IsSpace(tok) == tok = " "

\* the positions first..last of the tokens that str.strip() keeps of the
\* slice: from its first to its last token that is not whitespace (first >
\* last when the slice holds only whitespace)
StripBounds(tokens, first, last) ==
    LET solid == {i \in first..last : ~IsSpace(tokens[i])}
    IN  IF solid = {} THEN <<first, first - 1>>
        ELSE <<CHOOSE i \in solid : \A k \in solid : i <= k,
               CHOOSE i \in solid : \A k \in solid : i >= k>>

\* chunk_text.strip() of the decoded slice tokens[first..last]
strip(tokens, first, last) ==
    LET b == StripBounds(tokens, first, last)
    IN  SubSeq(tokens, b[1], b[2])

\* mutant: the next slice starts one token after the end of this one
NextStartSkipping(self, end) == end + 1

\* start = end - self.chunk_overlap
NextStart(self, end) == end - self.chunk_overlap

\* _chunk_text: the text itself when it fits one chunk, else slices of
\* max_chunk_size tokens, each starting chunk_overlap before the end of the
\* one before; a slice is stripped, and dropped when nothing is left of it
_chunk_text(self, text) ==
    LET RECURSIVE Loop(_, _)
        Loop(start, chunks) ==
            IF start >= Len(text)
            THEN chunks
            ELSE LET end == start + self.max_chunk_size
                     last == IF end < Len(text) THEN end ELSE Len(text)
                     chunk_text == strip(text, start + 1, last)
                 IN  Loop(NextStart(self, end),
                          IF chunk_text # <<>>
                          THEN Append(chunks, chunk_text) ELSE chunks)
    IN  IF Len(text) <= self.max_chunk_size THEN <<text>>
        ELSE Loop(0, <<>>)

\* the settings a ContentProcessor can be built with: a chunk size and an
\* overlap smaller than it
ChunkConfigs ==
    {c \in [max_chunk_size : 1..MaxChunkTokens,
            chunk_overlap : 0..(MaxChunkTokens - 1)] :
        c.chunk_overlap < c.max_chunk_size}

\* token sequences tokenizer.encode can return
ChunkerTexts == SeqsUpTo({"a", " "}, MaxTextLen)

\* _chunk_text is called: a text that fits one chunk is returned as it is,
\* otherwise the loop is entered with start = 0 and no chunk.  slices keeps,
\* for every chunk returned, the positions of the tokens it holds
ChunkTextCall ==
    /\ IF chunker = Nothing THEN TRUE ELSE chunker.pc = "returned"
    /\ \E self \in ChunkConfigs, tokens \in ChunkerTexts :
          chunker' =
              IF Len(tokens) <= self.max_chunk_size
              THEN [self |-> self, tokens |-> tokens, start |-> 0,
                    chunks |-> <<tokens>>, slices |-> << <<1, Len(tokens)>> >>,
                    iterations |-> 0, pc |-> "returned"]
              ELSE [self |-> self, tokens |-> tokens, start |-> 0,
                    chunks |-> <<>>, slices |-> <<>>,
                    iterations |-> 0, pc |-> "loop"]
    /\ UNCHANGED <<pipeVars, govVars, checkerVars, readerVars, stale,
                   lastSweep, idlog, scraper, admin, lastStatus>>

\* one turn of the while loop: the slice from start is decoded and stripped,
\* appended when something is left, and start moves on; the loop is left
\* when start has reached the end of the tokens
ChunkTextLoop ==
    /\ chunker # Nothing
    /\ chunker.pc = "loop"
    /\ LET self == chunker.self
           tokens == chunker.tokens
           end == chunker.start + self.max_chunk_size
           last == IF end < Len(tokens) THEN end ELSE Len(tokens)
           chunk_text == strip(tokens, chunker.start + 1, last)
           start == NextStart(self, end)
       IN  chunker' =
               [chunker EXCEPT
                   !.chunks = IF chunk_text # <<>>
                              THEN Append(@, chunk_text) ELSE @,
                   !.slices = IF chunk_text # <<>>
                              THEN Append(@, StripBounds(tokens,
                                                 chunker.start + 1, last))
                              ELSE @,
                   !.start = start,
                   !.iterations = @ + 1,
                   !.pc = IF start >= Len(tokens) THEN "returned"
                          ELSE "loop"]
    /\ UNCHANGED <<pipeVars, govVars, checkerVars, readerVars, stale,
                   lastSweep, idlog, scraper, admin, lastStatus>>

\* process_scraped_pages: the pages whose cleaned content is long enough are
\* chunked; each chunk carries its page's URL, its index in the page and the
\* md5 of its text
process_scraped_pages(self, scraped_pages) ==
    LET OfPage(page) ==
            LET clean_content == _clean_text(self, page.content)
                text_chunks == _chunk_text(self, clean_content)
            IN  IF Len(clean_content) < MinCleanLength THEN <<>>
                ELSE [k \in 1..Len(text_chunks) |->
                         [content |-> text_chunks[k],
                          source_url |-> page.url,
                          chunk_index |-> k - 1,
                          content_hash |-> md5(text_chunks[k])]]
        RECURSIVE All(_)
        All(n) == IF n = 0 THEN <<>>
                  ELSE All(n - 1) \o OfPage(scraped_pages[n])
    IN  All(Len(scraped_pages))

\* an identifier is generated for some URL, chunk index and content hash
GenerateChunkId ==
    /\ Len(idlog) < MaxIds
    /\ \E url \in PageUrls, chunk_index \in 0..(MaxTokens - 1),
          text \in PageTexts :
          idlog' = Append(idlog,
                     [page |-> Nothing, url |-> url,
                      chunk_index |-> chunk_index,
                      content_hash |-> md5(text),
                      id |-> _generate_deterministic_chunk_id(
                                 ContentProcessorInit, url, chunk_index,
                                 md5(text))])
    /\ UNCHANGED <<pipeVars, govVars, checkerVars, readerVars, stale,
                   lastSweep, scraper,
                   adminVars>>

\* a page is processed and an identifier generated for each of its chunks
ProcessPage ==
    \E url \in PageUrls, content \in PageTexts :
        LET page == [url |-> url, content |-> content]
            chunks == process_scraped_pages(ContentProcessorInit, <<page>>)
        IN  /\ chunks # <<>>
            /\ Len(idlog) + Len(chunks) <= MaxIds
            /\ idlog' = idlog \o
                 [k \in 1..Len(chunks) |->
                     [page |-> page, url |-> chunks[k].source_url,
                      chunk_index |-> chunks[k].chunk_index,
                      content_hash |-> chunks[k].content_hash,
                      id |-> _generate_deterministic_chunk_id(
                                 ContentProcessorInit, chunks[k].source_url,
                                 chunks[k].chunk_index,
                                 chunks[k].content_hash)]]
            /\ UNCHANGED <<pipeVars, govVars, checkerVars, readerVars, stale,
                           lastSweep, scraper,
                   adminVars>>

\* ------------------------------------------------------------------------
\* Parallel scrape and the URL rows stored from it (services/web_scraper.py,
\* services/content_discovery.py)
\* ------------------------------------------------------------------------
start_url == "start"

\* the URLs a homepage can link to, normalized
LinkUrls == {start_url, "u1", "u2", "doc.pdf"}

\* the content a fetch of a page can return
ScrapeContents == {<<"a">>, <<"#">>, <<"a", "a">>}

\* _is_valid_url: same domain, and not a document by its extension
_is_valid_url(url) == url # "doc.pdf"

\* the links of the homepage that are not visited, are valid and fit under
\* max_pages - 1, in the order of the page
CollectUrls(links, visited_urls) ==
    LET RECURSIVE Collect(_, _)
        Collect(i, urls_to_scrape) ==
            IF i > Len(links) THEN urls_to_scrape
            ELSE Collect(i + 1,
                    IF /\ links[i] \notin visited_urls
                       /\ _is_valid_url(links[i])
                       /\ Len(urls_to_scrape) < MaxScrapePages - 1
                    THEN Append(urls_to_scrape, links[i])
                    ELSE urls_to_scrape)
    IN  Collect(1, <<>>)

\* scrape_website_parallel, phase 1: the homepage is fetched (None: the fetch
\* failed and the scrape returns no page) and its links are collected
ScrapeHomepage ==
    /\ scraper = Nothing
    /\ \/ scraper' = [pc |-> "returned", visited_urls |-> {},
                      scraped_pages |-> <<>>, urls_to_scrape |-> <<>>,
                      next |-> 1, rows |-> <<>>]
       \/ \E content \in ScrapeContents, links \in SeqsUpTo(LinkUrls, MaxLinks) :
             LET urls_to_scrape == CollectUrls(links, {start_url})
             IN  scraper' =
                    [pc |-> IF urls_to_scrape = <<>> THEN "returned"
                            ELSE "workers",
                     visited_urls |-> {start_url},
                     scraped_pages |->
                         <<[url |-> start_url, content |-> content,
                            content_hash |-> md5(content)]>>,
                     urls_to_scrape |-> urls_to_scrape,
                     next |-> 1, rows |-> <<>>]
    /\ UNCHANGED <<pipeVars, govVars, checkerVars, readerVars, stale,
                   lastSweep, idlog,
                   adminVars>>

\* phase 2: the fetch of the next collected URL is awaited; a page (None: no
\* page or too little content) is kept unless a kept page has its content
\* hash
ScrapeWorkerDone ==
    /\ scraper # Nothing
    /\ scraper.pc = "workers"
    /\ LET url == scraper.urls_to_scrape[scraper.next]
           done == [scraper EXCEPT
                       !.next = @ + 1,
                       !.pc = IF scraper.next = Len(scraper.urls_to_scrape)
                              THEN "returned" ELSE "workers"]
       IN  \/ scraper' = done
           \/ \E content \in ScrapeContents :
                 scraper' =
                    IF \E i \in 1..Len(scraper.scraped_pages) :
                          scraper.scraped_pages[i].content_hash = md5(content)
                    THEN done
                    ELSE [done EXCEPT
                             !.scraped_pages =
                                 Append(@, [url |-> url, content |-> content,
                                            content_hash |-> md5(content)]),
                             !.visited_urls = @ \cup {url}]
    /\ UNCHANGED <<pipeVars, govVars, checkerVars, readerVars, stale,
                   lastSweep, idlog,
                   adminVars>>

\* _execute_discovery: one IngestionURL row is added for every scraped page,
\* with url_hash = md5 of the page's URL; no page is an error
StoreUrlRows ==
    /\ scraper # Nothing
    /\ scraper.pc = "returned"
    /\ scraper' =
          IF scraper.scraped_pages = <<>>
          THEN [scraper EXCEPT !.pc = "failed"]
          ELSE [scraper EXCEPT
                   !.pc = "stored",
                   !.rows = [i \in 1..Len(scraper.scraped_pages) |->
                                [url |-> scraper.scraped_pages[i].url,
                                 url_hash |->
                                     md5(<<scraper.scraped_pages[i].url>>)]]]
    /\ UNCHANGED <<pipeVars, govVars, checkerVars, readerVars, stale,
                   lastSweep, idlog,
                   adminVars>>

\* ------------------------------------------------------------------------
\* Stale-job reaper (services/status_updater.py)
\* ------------------------------------------------------------------------
\* mutant: the sweep selects by stage names only
StaleStatusesStagesOnly ==
    {"scraping", "processing", "embedding", "indexing", "storing"}

\* the job statuses the sweep selects
StaleStatuses ==
    {"running", "scraping", "processing", "embedding", "indexing", "storing"}

\* cleanup_stale_jobs: every job in a selected status whose started_at is
\* before the cutoff (aged[j]) is marked failed and gets an error entry with
\* the cleanup reason; one commit
cleanup_stale_jobs(table, aged) ==
    [j \in DOMAIN table |->
        IF /\ table[j] # Nothing
           /\ table[j].status \in StaleStatuses
           /\ aged[j]
        THEN [table[j] EXCEPT !.status = "failed",
                              !.error_details =
                                  Append(@, "stale_job_cleanup")]
        ELSE table[j]]

\* one run of the sweep; lastSweep keeps the table it found, the table it
\* left and the number of jobs it returns as cleaned
CleanupStaleJobs ==
    /\ jobs' = cleanup_stale_jobs(jobs, stale)
    /\ lastSweep' =
          [before |-> jobs, aged |-> stale, after |-> jobs',
           cleaned_count |->
               Cardinality({j \in JobIds : jobs'[j] # jobs[j]})]
    /\ UNCHANGED <<project, deletion, urls, disc, ing, qdrant, hist,
                   lastCancel, stale, idlog, scraper, govVars, checkerVars,
                   readerVars,
                   adminVars>>

\* the clock passes the point where started_at of job j is older than the
\* maximum age
TimePasses(j) ==
    /\ jobs[j] # Nothing
    /\ ~stale[j]
    /\ stale' = [stale EXCEPT ![j] = TRUE]
    /\ UNCHANGED <<pipeVars, lastSweep, idlog, scraper, govVars, checkerVars,
                   readerVars,
                   adminVars>>

\* ------------------------------------------------------------------------
\* Progress readers (services/progress_reporter.py, api/routes/projects.py)
\* ------------------------------------------------------------------------
\* the ingestion_chunks table (IngestionChunk rows) of a job: the pipeline
\* never inserts a row into it
ingestion_chunks(j) == <<>>

\* SELECT status, count(id) ... GROUP BY status: a dict over the statuses
\* that occur
CountByStatus(rows) ==
    [st \in {rows[i].status : i \in 1..Len(rows)} |->
        Cardinality({i \in 1..Len(rows) : rows[i].status = st})]

\* n / d rounded to the nearest integer, ties to even
RoundHalfEven(n, d) ==
    LET q == n \div d
        r == n % d
    IN  IF 2 * r < d THEN q
        ELSE IF 2 * r > d THEN q + 1
        ELSE IF q % 2 = 0 THEN q ELSE q + 1

\* round(count / total * 100, 2), in hundredths of a percent
Percent2(count, total) == RoundHalfEven(count * 10000, total)

\* ProgressReporter._get_chunk_progress
_get_chunk_progress(job, chunk_counts) ==
    LET total_chunks == job.total_chunks_created
        uploaded == Get(chunk_counts, "uploaded", 0)
        failed == Get(chunk_counts, "failed", 0)
    IN  IF total_chunks = Null
        THEN [status |-> "in_progress",
              queued |-> Get(chunk_counts, "queued", 0),
              uploading |-> Get(chunk_counts, "uploading", 0),
              uploaded |-> uploaded, failed |-> failed,
              retrying |-> Get(chunk_counts, "retrying", 0)]
        ELSE [status |-> "known", total |-> total_chunks,
              queued |-> Get(chunk_counts, "queued", 0),
              uploading |-> Get(chunk_counts, "uploading", 0),
              uploaded |-> uploaded, failed |-> failed,
              retrying |-> Get(chunk_counts, "retrying", 0),
              completed_count |-> uploaded + failed,
              percentage_complete |->
                  IF total_chunks > 0
                  THEN Percent2(uploaded + failed, total_chunks) ELSE 0,
              percentage_uploaded |->
                  IF total_chunks > 0
                  THEN Percent2(uploaded, total_chunks) ELSE 0]

\* ProgressReporter.get_job_progress: the report built from the job row, the
\* URL counts and the chunk counts
get_job_progress(table, url_table, job_id) ==
    IF job_id \notin DOMAIN table \/ table[job_id] = Nothing
    THEN [error |-> "Job not found"]
    ELSE LET job == table[job_id]
             url_counts == CountByStatus(url_table[job_id])
         IN  [job_id |-> job_id, status |-> job.status,
              current_stage |-> job.current_stage,
              discovery |->
                  [total_urls_discovered |-> job.total_urls_discovered,
                   is_complete |-> job.total_urls_discovered > 0],
              urls |-> [total |-> job.total_urls_discovered,
                        scraped |-> Get(url_counts, "scraped", 0),
                        processed |-> Get(url_counts, "processed", 0),
                        completed |-> Get(url_counts, "completed", 0)],
              chunks |-> _get_chunk_progress(
                             job, CountByStatus(ingestion_chunks(job_id))),
              errors_count |-> job.errors_count]

GetJobProgress(j) ==
    /\ progress' = get_job_progress(jobs, urls, j)
    /\ UNCHANGED <<pipeVars, govVars, checkerVars, stream, sideVars>>

\* ingest_website_content.generate when the select finds no job ready: one
\* error frame and the stream ends
StreamRefused(j) ==
    /\ stream = Nothing
    /\ ing[j][1].pc = "idle"
    /\ ~(jobs[j] # Nothing /\ jobs[j].status = "running"
           /\ jobs[j].current_stage = "discovery_complete")
    /\ stream' = [job_id |-> j, open |-> FALSE, poll_count |-> 0,
                  last_stage |-> NoValue, last_percentage |-> 0,
                  job_total |-> Null,
                  frames |-> <<[event_type |-> "error",
                                error |-> "No scraping job ready for ingestion"]>>]
    /\ UNCHANGED <<pipeVars, govVars, checkerVars, progress, sideVars>>

\* the generator of the request that started ingestion (task 1): the init
\* frame, last_stage = None, last_percentage = 0
StreamInit(j) ==
    /\ stream = Nothing
    /\ ing[j][1].pc = "requested"
    /\ stream' = [job_id |-> j, open |-> TRUE, poll_count |-> 0,
                  last_stage |-> NoValue, last_percentage |-> 0,
                  job_total |-> Null,
                  frames |-> <<[event_type |-> "init", job_id |-> j]>>]
    /\ UNCHANGED <<pipeVars, govVars, checkerVars, progress, sideVars>>

\* int((uploaded_chunks / total_chunks) * 100)
ChunkPercentage(total_chunks, uploaded_chunks) ==
    IF total_chunks > 0 THEN (uploaded_chunks * 100) \div total_chunks ELSE 0

\* the frame a poll emits for the job row it read, or Nothing
PollFrame(st, job) ==
    LET total_chunks == IF job.total_chunks_created = Null THEN 0
                        ELSE job.total_chunks_created
        uploaded_chunks == job.chunks_uploaded
        progress_percentage == ChunkPercentage(total_chunks, uploaded_chunks)
    IN  IF job.status = "completed"
        THEN [event_type |-> "complete", chunks_created |-> total_chunks,
              chunks_uploaded |-> uploaded_chunks]
        ELSE IF job.status = "failed"
        THEN [event_type |-> "error", error |-> "Ingestion failed"]
        ELSE IF job.current_stage # st.last_stage
                \/ progress_percentage # st.last_percentage
        THEN [event_type |-> "progress", stage |-> job.current_stage,
              progress_percentage |-> progress_percentage,
              chunks_created |-> total_chunks,
              chunks_uploaded |-> uploaded_chunks, status |-> job.status]
        ELSE Nothing

TimeoutFrame == [event_type |-> "timeout"]

\* one turn of the polling loop (the loop runs while poll_count < max_polls,
\* 300 in the source, MaxPolls here): the job is read again, a frame is
\* yielded, complete and error end the loop; when the loop has ended with
\* poll_count >= max_polls the timeout frame follows
StreamPoll(j) ==
    /\ stream # Nothing
    /\ stream.open
    /\ stream.job_id = j
    /\ ing[j][1].pc \notin {"idle", "requested"}
    /\ LET job == jobs[j]
           frame == PollFrame(stream, job)
           count == stream.poll_count + 1
           ended == frame # Nothing
                      /\ frame.event_type \in {"complete", "error"}
           emitted == IF frame = Nothing THEN stream.frames
                      ELSE Append(stream.frames, frame)
       IN  stream' = [stream EXCEPT
               !.poll_count = count,
               !.job_total = job.total_chunks_created,
               !.last_stage = IF frame # Nothing
                                  /\ frame.event_type = "progress"
                              THEN job.current_stage ELSE @,
               !.last_percentage = IF frame # Nothing
                                       /\ frame.event_type = "progress"
                                   THEN frame.progress_percentage ELSE @,
               !.open = ~ended /\ count < MaxPolls,
               !.frames = IF count >= MaxPolls
                          THEN Append(emitted, TimeoutFrame)
                          ELSE emitted]
    /\ UNCHANGED <<pipeVars, govVars, checkerVars, progress, sideVars>>

\* ------------------------------------------------------------------------
\* Status requests (services/status_updater.py, api/routes/status.py,
\* api/routes/scraping.py)
\* ------------------------------------------------------------------------
\* int(x or 0) on a nullable integer column
OrZero(x) == IF x = Null THEN 0 ELSE x

\* int(round((count / total) * 100))
RoundedPercentage(count, total) == RoundHalfEven(count * 100, total)

ChunkStages == {"ingestion", "storing", "completed"}

\* StatusUpdateService.update_job_progress: the dict it returns, None for a
\* job that does not exist
update_job_progress(table, job_id) ==
    IF table[job_id] = Nothing THEN Nothing
    ELSE LET job == table[job_id]
             urls_total == OrZero(job.total_urls_discovered)
             urls_processed == OrZero(job.urls_processed)
             urls_completed == OrZero(job.urls_completed)
             pages_processed == urls_processed + urls_completed
             total_chunks_created == OrZero(job.total_chunks_created)
             chunks_uploaded == OrZero(job.chunks_uploaded)
         IN  [job_id |-> job_id, status |-> job.status,
              progress_percentage |->
                  IF total_chunks_created > 0
                     /\ job.current_stage \in ChunkStages
                  THEN RoundedPercentage(chunks_uploaded,
                                         total_chunks_created)
                  ELSE IF urls_total > 0
                  THEN RoundedPercentage(pages_processed, urls_total)
                  ELSE 0,
              pages_processed |-> pages_processed,
              current_stage |-> job.current_stage,
              urls_discovered |-> OrZero(job.total_urls_discovered),
              urls_scraped |-> OrZero(job.urls_scraped),
              chunks_created |-> OrZero(job.total_chunks_created),
              errors_count |-> OrZero(job.errors_count)]

\* get_job_status of the scraping routes (the job status query): the URL
\* counts come from ProgressReporter.get_job_progress, the chunk counts from
\* the job row
get_job_status(table, url_table, job_id) ==
    IF table[job_id] = Nothing THEN [error |-> "Job not found"]
    ELSE LET job == table[job_id]
             report == get_job_progress(table, url_table, job_id)
             urls_total == OrZero(report.urls.total)
             urls_processed == report.urls.processed
             urls_completed == report.urls.completed
             total_chunks_created == OrZero(job.total_chunks_created)
             chunks_uploaded == OrZero(job.chunks_uploaded)
         IN  [job_id |-> job_id, status |-> job.status,
              current_stage |-> job.current_stage,
              progress_percentage |->
                  IF total_chunks_created > 0
                     /\ job.current_stage \in ChunkStages
                  THEN RoundedPercentage(chunks_uploaded,
                                         total_chunks_created)
                  ELSE IF urls_total > 0
                  THEN RoundedPercentage(urls_processed, urls_total)
                  ELSE 0,
              pages_discovered |-> OrZero(job.total_urls_discovered),
              pages_processed |-> urls_processed + urls_completed,
              chunks_created |-> total_chunks_created,
              chunks_uploaded |-> chunks_uploaded,
              errors_count |-> OrZero(job.errors_count),
              error_details |-> job.error_details]

\* the tables a status request found and the tables it left
StatusRequest(op, response, jobs_after) ==
    [op |-> op, response |-> response,
     jobs_before |-> jobs, urls_before |-> urls,
     jobs_after |-> jobs_after, urls_after |-> urls]

\* GET /status/job/{job_id}: update_job_progress reads the job row; for a
\* completed or failed job monitor_assistant_jobs then writes the assistant
UpdateJobProgress(j) ==
    /\ lastStatus' = StatusRequest("update_job_progress",
                                   update_job_progress(jobs, j), jobs)
    /\ UNCHANGED <<pipeVars, govVars, checkerVars, readerVars, stale,
                   lastSweep, idlog, scraper, admin,
                   chunker>>

\* GET /scraping/status/{job_id}
GetJobStatus(j) ==
    /\ lastStatus' = StatusRequest("get_job_status",
                                   get_job_status(jobs, urls, j), jobs)
    /\ UNCHANGED <<pipeVars, govVars, checkerVars, readerVars, stale,
                   lastSweep, idlog, scraper, admin,
                   chunker>>

\* GET /status/health: the stale-job sweep is run, then the running and
\* queued jobs are counted
SystemHealthCheck ==
    /\ jobs' = cleanup_stale_jobs(jobs, stale)
    /\ lastSweep' =
          [before |-> jobs, aged |-> stale, after |-> jobs',
           cleaned_count |->
               Cardinality({j \in JobIds : jobs'[j] # jobs[j]})]
    /\ lastStatus' =
          StatusRequest("system_health_check",
                        [active_jobs |->
                             Cardinality({j \in JobIds :
                                 jobs'[j] # Nothing
                                 /\ jobs'[j].status \in
                                        {"running", "queued"}}),
                         stale_jobs_cleaned |-> lastSweep'.cleaned_count],
                        jobs')
    /\ UNCHANGED <<project, deletion, urls, disc, ing, qdrant, hist,
                   lastCancel, govVars, checkerVars, readerVars, stale,
                   idlog, scraper, admin,
                   chunker>>

InitGov ==
    /\ engine = Nothing
    /\ lastEval = Nothing
    /\ againEval = Nothing
    /\ chat = [resp |-> Nothing, log |-> <<>>]

InitPipe ==
    /\ project = [status |-> "active"]
    /\ deletion = "none"
    /\ jobs = [j \in JobIds |-> Nothing]
    /\ urls = [j \in JobIds |-> <<>>]
    /\ disc = [j \in JobIds |-> [pc |-> "idle", job |-> Nothing, pages |-> <<>>]]
    /\ ing = [j \in JobIds |-> [t \in TaskIds |-> IdleTask]]
    /\ qdrant = [j \in JobIds |-> [calls |-> 0, points |-> 0]]
    /\ hist = [deleting_while_running |-> [j \in JobIds |-> FALSE],
               upsert_after_stop |-> [j \in JobIds |-> FALSE],
               ingest_requested |-> [j \in JobIds |-> FALSE]]
    /\ lastCancel = Nothing

InitChecker ==
    /\ checker = Nothing
    /\ lastCheck = Nothing

InitReader ==
    /\ progress = Nothing
    /\ stream = Nothing

\* no job has aged yet, no identifier was generated, no scrape has run
InitSide ==
    /\ stale = [j \in JobIds |-> FALSE]
    /\ lastSweep = Nothing
    /\ idlog = <<>>
    /\ scraper = Nothing
    /\ admin = AdminIdle
    /\ lastStatus = Nothing
    /\ chunker = Nothing

Init == InitGov /\ InitPipe /\ InitChecker /\ InitReader /\ InitSide

\* rows the ingestion_jobs table can hold for a job
JobStatuses == {"queued", "running", "cancelled", "completed", "failed"}

StoredJobs ==
    {[NewJob EXCEPT !.status = s, !.cancellation_requested = c,
                    !.cancellation_reason =
                        IF c THEN "User requested cancellation" ELSE NoValue] :
        s \in JobStatuses, c \in BOOLEAN}

ProjectStatuses == {"active", "deleting", "deleted"}

\* a store holding any job row (or none) under a project in any status, with
\* no background task running
InitStore ==
    /\ InitGov
    /\ InitChecker
    /\ InitReader
    /\ stale = [j \in JobIds |-> FALSE]
    /\ lastSweep = Nothing
    /\ idlog = <<>>
    /\ scraper = Nothing
    /\ admin = AdminIdle
    /\ lastStatus = Nothing
    /\ chunker = Nothing
    /\ project \in [status : ProjectStatuses]
    /\ deletion = "none"
    /\ jobs \in [JobIds -> StoredJobs \cup {Nothing}]
    /\ urls = [j \in JobIds |-> <<>>]
    /\ disc = [j \in JobIds |-> [pc |-> "idle", job |-> Nothing, pages |-> <<>>]]
    /\ ing = [j \in JobIds |-> [t \in TaskIds |-> IdleTask]]
    /\ qdrant = [j \in JobIds |-> [calls |-> 0, points |-> 0]]
    /\ hist = [deleting_while_running |-> [j \in JobIds |-> FALSE],
               upsert_after_stop |-> [j \in JobIds |-> FALSE],
               ingest_requested |-> [j \in JobIds |-> FALSE]]
    /\ lastCancel = Nothing

NextGov == NewEngine \/ EvaluateQuery \/ ReEvaluateQuery

SpecGov == Init /\ [][NextGov]_vars

NextChat == ChatQuery

NextPipe ==
    \/ \E j \in JobIds :
          \/ StartDiscovery(j)
          \/ DiscLoad(j)
          \/ DiscScrape(j)
          \/ DiscStore(j)
          \/ DiscExcept(j)
          \/ ScrapeMasterStart(j)
          \/ ScrapeMasterRun(j)
    \/ \E j \in JobIds, t \in TaskIds :
          \/ IngestSelect(j, t)
          \/ StartIngestion(j, t)
          \/ IngLoad(j, t)
          \/ IngGuard(j, t)
          \/ IngProcess(j, t)
          \/ IngEmbeddingStage(j, t)
          \/ IngEmbed(j, t)
          \/ IngIngestionStage(j, t)
          \/ IngEnsureCollection(j, t)
          \/ IngUpload(j, t)
          \/ IngUploaded(j, t)
          \/ IngStoringStage(j, t)
          \/ IngComplete(j, t)
          \/ IngExcept(j, t)
    \/ InitiateDeletionMark
    \/ InitiateDeletionCancelJobs
    \/ RequestJobCancellation

Spec == Init /\ [][NextPipe]_vars

NextStore ==
    \/ NewChecker
    \/ CheckCancellation
    \/ RequestJobCancellation
    \/ InitiateDeletionMark
    \/ InitiateDeletionCancelJobs

SpecStore == InitStore /\ [][NextStore]_vars

\* the stale-job sweep over a store holding any job row, beside the requests
\* that change a stored job's status
NextSweep ==
    \/ CleanupStaleJobs
    \/ \E j \in JobIds : TimePasses(j)
    \/ RequestJobCancellation
    \/ InitiateDeletionMark
    \/ InitiateDeletionCancelJobs

SpecSweep == InitStore /\ [][NextSweep]_vars

\* chunk identifiers generated one by one and for the chunks of processed
\* pages
NextChunkId == GenerateChunkId \/ ProcessPage

SpecChunkId == Init /\ [][NextChunkId]_vars

\* calls of _chunk_text, one after the other
NextChunker == ChunkTextCall \/ ChunkTextLoop

SpecChunker == Init /\ [][NextChunker]_vars

\* the loop body is straight-line code: a call that is in the loop takes its
\* next turn
SpecChunkerLive == SpecChunker /\ WF_vars(ChunkTextLoop)

\* one scrape of a site and the URL rows of the job stored from it
NextScrape == ScrapeHomepage \/ ScrapeWorkerDone \/ StoreUrlRows

SpecScrape == Init /\ [][NextScrape]_vars

\* one job from its creation on, with one ingestion request, failing
\* handlers, cancellation requests and the stale-job sweep
NextReaper ==
    \/ \E j \in JobIds :
          \/ StartDiscovery(j)
          \/ DiscLoad(j)
          \/ DiscScrape(j)
          \/ DiscStore(j)
          \/ DiscExcept(j)
          \/ DiscExceptFails(j)
          \/ ScrapeMasterStart(j)
          \/ ScrapeMasterRun(j)
          \/ IngestSelect(j, 1)
          \/ StartIngestion(j, 1)
          \/ IngLoad(j, 1)
          \/ IngGuard(j, 1)
          \/ IngProcess(j, 1)
          \/ IngEmbeddingStage(j, 1)
          \/ IngEmbed(j, 1)
          \/ IngIngestionStage(j, 1)
          \/ IngEnsureCollection(j, 1)
          \/ IngUpload(j, 1)
          \/ IngUploaded(j, 1)
          \/ IngStoringStage(j, 1)
          \/ IngComplete(j, 1)
          \/ IngExcept(j, 1)
          \/ IngExceptFails(j, 1)
          \/ TimePasses(j)
    \/ CleanupStaleJobs
    \/ RequestJobCancellation

SpecReaper == Init /\ [][NextReaper]_vars

\* one job from its creation to the end of discovery, under the deletion
\* requests of the project routes
NextDeletion ==
    \/ \E j \in JobIds :
          \/ StartDiscovery(j)
          \/ DiscLoad(j)
          \/ DiscScrape(j)
          \/ DiscStore(j)
          \/ DiscExcept(j)
          \/ DiscExceptFails(j)
    \/ InitiateDeletionMark
    \/ InitiateDeletionCancelJobs
    \/ BulkDeleteSelect
    \/ BulkDeleteInitiate
    \/ CompleteDeletionCheck
    \/ CompleteDeletionCommit

SpecDeletion == Init /\ [][NextDeletion]_vars

\* one job through discovery and one ingestion request, the clock, and the
\* status requests
NextStatus ==
    \/ \E j \in JobIds :
          \/ StartDiscovery(j)
          \/ DiscLoad(j)
          \/ DiscScrape(j)
          \/ DiscStore(j)
          \/ DiscExcept(j)
          \/ IngestSelect(j, 1)
          \/ StartIngestion(j, 1)
          \/ IngLoad(j, 1)
          \/ IngGuard(j, 1)
          \/ IngProcess(j, 1)
          \/ IngEmbeddingStage(j, 1)
          \/ IngEmbed(j, 1)
          \/ IngEmbedMiscount(j, 1)
          \/ IngIngestionStage(j, 1)
          \/ IngEnsureCollection(j, 1)
          \/ IngUpload(j, 1)
          \/ IngUploaded(j, 1)
          \/ IngStoringStage(j, 1)
          \/ IngComplete(j, 1)
          \/ IngExcept(j, 1)
          \/ TimePasses(j)
          \/ UpdateJobProgress(j)
          \/ GetJobStatus(j)
    \/ SystemHealthCheck

SpecStatus == Init /\ [][NextStatus]_vars

\* the sweep keeps being run and the clock keeps advancing; no background
\* task is required to take its next step
SpecLive ==
    /\ Init
    /\ [][NextReaper]_vars
    /\ WF_vars(CleanupStaleJobs)
    /\ \A j \in JobIds : WF_vars(TimePasses(j))

\* one job with one ingestion request, its progress stream and the progress
\* report
NextProgress ==
    \E j \in JobIds :
        \/ StartDiscovery(j)
        \/ DiscLoad(j)
        \/ DiscScrape(j)
        \/ DiscStore(j)
        \/ DiscExcept(j)
        \/ ScrapeMasterStart(j)
        \/ ScrapeMasterRun(j)
        \/ IngestSelect(j, 1)
        \/ StartIngestion(j, 1)
        \/ IngLoad(j, 1)
        \/ IngGuard(j, 1)
        \/ IngProcess(j, 1)
        \/ IngEmbeddingStage(j, 1)
        \/ IngEmbed(j, 1)
        \/ IngEmbedMiscount(j, 1)
        \/ IngIngestionStage(j, 1)
        \/ IngEnsureCollection(j, 1)
        \/ IngUpload(j, 1)
        \/ IngUploaded(j, 1)
        \/ IngStoringStage(j, 1)
        \/ IngComplete(j, 1)
        \/ IngExcept(j, 1)
        \/ GetJobProgress(j)
        \/ StreamRefused(j)
        \/ StreamInit(j)
        \/ StreamPoll(j)

SpecProgress == Init /\ [][NextProgress]_vars

SpecChat == Init /\ [][NextChat]_vars

\* ========================================================================
\* Claims
\* ========================================================================
Evaluated == lastEval # Nothing

\* the engine the chat path would have to consult for an assistant row
EngineOf(assistant) ==
    GovernanceEngineInit([id |-> assistant.id,
                          allowed_intents |-> assistant.allowed_intents])

\* C1: chat_query surfaces a response with decision ANSWER only if
\* evaluate_query returned ANSWER for the retrieved chunks of that query;
\* a query with no retrieved chunks gets REFUSE, never a model answer.
C1_AnswerOnlyAfterGovernance ==
    (chat.resp # Nothing /\ chat.resp.http = 200) =>
        /\ chat.resp.decision = "ANSWER" =>
              /\ chat.resp.governance_evaluated
              /\ evaluate_query(EngineOf(chat.resp.assistant),
                                chat.resp.retrieved_chunks,
                                chat.resp.assistant.tenant_id, <<>>).decision
                    = "ANSWER"
        /\ chat.resp.retrieved_chunks = <<>> =>
              chat.resp.decision = "REFUSE" /\ ~chat.resp.answer_by_model

OtherTenant(chunks, tenant_id) ==
    \E i \in 1..Len(chunks) : chunks[i].tenant_id # tenant_id

IntentAllowed(self, chunks) ==
    SelectSeq(chunks, LAMBDA c :
        self.allowed_intents = {}
        \/ Get(c, "intent", "unknown") \in self.allowed_intents)

Reaching(chunks, threshold) ==
    SelectSeq(chunks, LAMBDA c : Get(c, "score", 0) >= threshold)

\* the REFUSE reason the gate order of the claim prescribes ("None": ANSWER)
FirstFailingGate(self, chunks, tenant_id, threshold) ==
    IF chunks = <<>> THEN "NO_CONTEXT"
    ELSE IF OtherTenant(chunks, tenant_id) THEN "CROSS_TENANT"
    ELSE IF IntentAllowed(self, chunks) = <<>> THEN "OUT_OF_SCOPE"
    ELSE IF Reaching(IntentAllowed(self, chunks), threshold) = <<>>
    THEN "INSUFFICIENT_CONFIDENCE"
    ELSE NoValue

\* C2: the REFUSE reason is that of the first failing gate in the order
\* require-context, tenant-isolation, intent-filter, confidence-threshold
\* (and the decision is ANSWER exactly when no gate fails).
C2_FirstFailingGateDecides ==
    Evaluated =>
        LET gate == FirstFailingGate(engine, lastEval.chunks,
                                     lastEval.tenant_id, DefaultThreshold)
        IN  /\ lastEval.out.reason = gate
            /\ (lastEval.out.decision = "REFUSE") <=> (gate # NoValue)

\* C3: on ANSWER allowed_context is the non-empty subsequence of the
\* candidates whose score reaches the applied threshold and whose intent is
\* allowed (any intent when the allow-list is empty), in the original order;
\* on REFUSE allowed_context is empty.
C3_AllowedContextExact ==
    Evaluated =>
        /\ lastEval.out.decision = "ANSWER" =>
              /\ lastEval.out.allowed_context # <<>>
              /\ lastEval.out.allowed_context =
                    Reaching(IntentAllowed(engine, lastEval.chunks),
                             DefaultThreshold)
        /\ lastEval.out.decision = "REFUSE" =>
              lastEval.out.allowed_context = <<>>

\* an ANSWER that dropped one candidate and kept two others in order
C3_Witness ==
    /\ Evaluated
    /\ lastEval.out.decision = "ANSWER"
    /\ Len(lastEval.out.allowed_context) >= 1
    /\ Len(lastEval.out.allowed_context) < Len(lastEval.chunks)
    /\ engine.allowed_intents # {}

\* C4: a non-empty candidate list holding a chunk of another tenant than the
\* requester is refused with reason CROSS_TENANT.
C4_CrossTenantRefused ==
    (Evaluated /\ lastEval.chunks # <<>>
       /\ OtherTenant(lastEval.chunks, lastEval.tenant_id)) =>
        /\ lastEval.out.decision = "REFUSE"
        /\ lastEval.out.reason = "CROSS_TENANT"

\* the threshold configured for the assistant, 0.7 when none is configured
ConfiguredThreshold(self) ==
    Get(self.governance_rules, "confidence_threshold", DefaultThreshold)

\* C5: the confidence gate applies the assistant's configured threshold t
\* (0.7 only when none is configured): the intent-allowed candidates that
\* survive it are exactly those with score >= t.
C5_ConfiguredThresholdApplied ==
    (Evaluated /\ lastEval.out.reason
                    \in {NoValue, "INSUFFICIENT_CONFIDENCE"}) =>
        lastEval.out.allowed_context =
            Reaching(IntentAllowed(engine, lastEval.chunks),
                     ConfiguredThreshold(engine))

RefusalReasons ==
    {"NO_CONTEXT", "CROSS_TENANT", "OUT_OF_SCOPE", "INSUFFICIENT_CONFIDENCE"}

\* C6: every call of evaluate_query, also on chunks that lack keys, returns a
\* decision ANSWER or REFUSE (REFUSE with a reason), and a repeated call on
\* the same inputs returns the same decision, reason, allowed_context and
\* rules_applied, whatever was evaluated before.
C6_TotalAndDeterministic ==
    /\ Evaluated =>
          \/ lastEval.out.decision = "ANSWER" /\ lastEval.out.reason = NoValue
          \/ lastEval.out.decision = "REFUSE"
                /\ lastEval.out.reason \in RefusalReasons
    /\ againEval # Nothing => againEval = lastEval.out

\* a repeated call on candidates of which one lacks its score key
C6_Witness ==
    /\ Evaluated
    /\ againEval # Nothing
    /\ lastEval.out.decision = "ANSWER"
    /\ \E i \in 1..Len(lastEval.chunks) : "score" \notin DOMAIN lastEval.chunks[i]
\* C7: when the project is marked deleting while a job is running, the
\* job's pipeline stops and the job ends cancelled: it does not go on to
\* reach completed.
C7_DeletionCancelsRunningJob ==
    \A j \in JobIds :
        hist.deleting_while_running[j] => jobs[j].status # "completed"

\* C8: once cancellation of a job is requested or its project is no longer
\* active, no vector-store upsert is started for the job.
C8_NoUpsertAfterStop ==
    \A j \in JobIds : ~hist.upsert_after_stop[j]

\* C9: check_cancellation raises only when the store holds a reason to stop
\* (project not active, job cancelled or its cancellation requested, job
\* failed); for a running job without a cancellation request in an active
\* project every call returns, the first call on a new checker included.
C9_RaisesOnlyWhenStopped ==
    (lastCheck # Nothing /\ lastCheck.job # Nothing
                         /\ lastCheck.raised # "none") =>
        \/ lastCheck.project_status # "active"
        \/ lastCheck.job.status \in {"cancelled", "failed"}
        \/ lastCheck.job.cancellation_requested

C11_SingleIngestionRun ==
    \A j \in JobIds : qdrant[j].calls <= 1

\* the job a refused start-ingestion call finds: in one of the ingestion
\* stages, or completed
Refused(job) ==
    \/ job.current_stage \in {"processing", "embedding", "ingestion", "storing"}
    \/ job.status = "completed"

\* C12: a start-ingestion call that finds the job in processing, embedding,
\* ingestion or storing, or completed, is refused: its step changes no job
\* field, no URL row and nothing in the vector store, and the task ends
\* there without an embedding or vector-store call.
C12_RefusedCallChangesNothing ==
    [][\A j \in JobIds, t \in TaskIds :
          /\ (ing[j][t].pc = "guard" /\ Refused(ing[j][t].job)
                                     /\ ing'[j][t] # ing[j][t]) =>
                 /\ jobs' = jobs
                 /\ urls' = urls
                 /\ qdrant' = qdrant
                 /\ ing'[j][t].pc = "skipped"
          /\ ing[j][t].pc = "skipped" => ing'[j][t] = ing[j][t]]_vars

\* a call refused on a job another task has taken to the storing stage
C12_Witness ==
    \E j \in JobIds, t \in TaskIds :
        /\ ing[j][t].pc = "skipped"
        /\ ing[j][t].job.current_stage = "storing"
C14_TotalChunksWrittenOnce ==
    [][\A j \in JobIds :
          jobs[j] # Nothing =>
              /\ jobs[j].total_chunks_created # Null
                    => jobs'[j].total_chunks_created
                          = jobs[j].total_chunks_created
              /\ jobs'[j].total_chunks_created # Null
                    => \A i \in 1..Len(urls'[j]) :
                          urls'[j][i].status = "processed"
              /\ (jobs[j].total_chunks_created = Null
                    /\ jobs'[j].total_chunks_created # Null)
                    => jobs'[j].total_chunks_created
                          = Sum([i \in 1..Len(urls'[j]) |->
                                    urls'[j][i].chunk_count], Len(urls'[j]))]_vars

\* two ingestion tasks have both chunked the job's URLs and committed
C14_Witness ==
    \E j \in JobIds :
        /\ jobs[j] # Nothing
        /\ jobs[j].total_chunks_created > 0
        /\ \A t \in TaskIds : ing[j][t].job # Nothing
                                /\ ing[j][t].job.total_chunks_created # Null
\* C15: no report carries a chunk-upload percentage for a job whose
\* total_chunks_created is NULL: the chunk section of get_job_progress has
\* no percentage field, and a progress frame of the ingestion stream built
\* from such a job row has no progress_percentage.
C15_NoPercentageWhileTotalNull ==
    /\ (progress # Nothing /\ "chunks" \in DOMAIN progress
           /\ progress.chunks.status = "in_progress")
          => /\ "percentage_complete" \notin DOMAIN progress.chunks
             /\ "percentage_uploaded" \notin DOMAIN progress.chunks
    /\ (stream # Nothing /\ stream.job_total = Null
           /\ stream.frames[Len(stream.frames)].event_type = "progress")
          => "progress_percentage"
                \notin DOMAIN stream.frames[Len(stream.frames)]

\* C16: for a job the pipeline has completed with every chunk uploaded
\* (chunks_uploaded = total_chunks_created > 0), get_job_progress reports
\* stage completed and percentage_complete = 100.00.
C16_CompletedJobReportsHundred ==
    \A j \in JobIds :
        (/\ progress # Nothing
         /\ "status" \in DOMAIN progress
         /\ progress.job_id = j
         /\ progress.status = "completed"
         /\ jobs[j].total_chunks_created > 0
         /\ jobs[j].chunks_uploaded = jobs[j].total_chunks_created)
            => /\ progress.current_stage = "completed"
               /\ progress.chunks.percentage_complete = 10000
StageSequence ==
    <<"discovery", "discovery_complete", "processing", "embedding",
      "ingestion", "storing", "completed">>

\* C17: current_stage moves only along discovery, discovery_complete,
\* processing, embedding, ingestion, storing, completed: every change of
\* the stage goes from one stage of the sequence to the next one.
C17_StageAdvancesInSequence ==
    [][\A j \in JobIds :
          (jobs[j] # Nothing
              /\ jobs'[j].current_stage # jobs[j].current_stage) =>
             \E i \in 1..(Len(StageSequence) - 1) :
                 /\ jobs[j].current_stage = StageSequence[i]
                 /\ jobs'[j].current_stage = StageSequence[i + 1]]_vars

\* C18: ingestion is not chained to discovery: while no start-ingestion
\* request has been made for a job, no ingestion task exists, the job is in
\* a discovery stage, nothing is chunked or upserted; and the job leaves
\* discovery_complete only for processing, by the guard step of a task that
\* a request created.
C18_NoAutoChain ==
    /\ [](\A j \in JobIds :
             ~hist.ingest_requested[j] =>
                 /\ \A t \in TaskIds : ing[j][t].pc = "idle"
                 /\ qdrant[j].calls = 0
                 /\ jobs[j] # Nothing =>
                       /\ jobs[j].current_stage
                             \in {"discovery", "storing", "discovery_complete"}
                       /\ jobs[j].total_chunks_created = Null)
    /\ [][\A j \in JobIds :
             (jobs[j] # Nothing
                 /\ jobs[j].current_stage = "discovery_complete"
                 /\ jobs'[j].current_stage # "discovery_complete") =>
                /\ jobs'[j].current_stage = "processing"
                /\ hist.ingest_requested[j]
                /\ \E t \in TaskIds : /\ ing[j][t].pc = "guard"
                                      /\ ing'[j][t].pc = "select"]_vars

\* discovery has finished, nothing was requested, the job waits in
\* discovery_complete while the project is already being deleted
C18_Witness ==
    \E j \in JobIds :
        /\ jobs[j] # Nothing
        /\ disc[j].pc = "done"
        /\ jobs[j].current_stage = "discovery_complete"
        /\ ~hist.ingest_requested[j]
        /\ jobs[j].cancellation_requested

\* C19: when discovery (on either path) or an ingestion step ends with an
\* exception, the job is failed and holds an error entry; it is not left
\* running.
C19_FailureRecorded ==
    \A j \in JobIds :
        /\ (disc[j].pc \in {"done", "route_raised"} /\ disc[j].pages = <<>>)
              => /\ jobs[j].status = "failed"
                 /\ Len(jobs[j].error_details) > 0
        /\ (ing[j][1].pc = "done" /\ ing[j][1].raised_in # NoValue)
              => /\ jobs[j].status = "failed"
                 /\ Len(jobs[j].error_details) > 0

\* C20: a failed vector-store upload does not abort the job: after it the
\* job is not failed.
C20_UploadFailureDoesNotAbort ==
    \A j \in JobIds :
        (ing[j][1].pc = "done" /\ ing[j][1].raised_in = "upload")
            => jobs[j].status # "failed"
TerminalStatuses == {"completed", "failed", "cancelled"}

C22_EveryJobTerminates ==
    \A j \in JobIds :
        (jobs[j] # Nothing) ~>
            (jobs[j] # Nothing /\ jobs[j].status \in TerminalStatuses)

\* the sweep has failed a job that waited in discovery_complete with no
\* ingestion request
C22_Witness ==
    \E j \in JobIds :
        /\ jobs[j] # Nothing
        /\ jobs[j].status = "failed"
        /\ jobs[j].current_stage = "discovery_complete"
        /\ ~hist.ingest_requested[j]
        /\ lastSweep # Nothing
        /\ lastSweep.before[j] # Nothing
        /\ lastSweep.before[j].status = "running"
        /\ lastSweep.after[j].status = "failed"

\* ------------------------------------------------------------------------
\* C23: check_cancellation reports project-not-active in preference to
\* job-cancelled, and job-cancelled in preference to job-failed, both for
\* the statuses it holds in its cache and, after a refresh that succeeded,
\* for what the store holds; a job with a cancellation request whose stored
\* status is not cancelled is cached, and reported, as cancelled.
\* ------------------------------------------------------------------------
Refreshed ==
    /\ lastCheck # Nothing
    /\ lastCheck.call % RefreshInterval = 0
    /\ lastCheck.fault = "none"
    /\ lastCheck.job # Nothing

C23_Precedence ==
    /\ lastCheck # Nothing =>
          /\ checker.cached_project_status # "active" =>
                lastCheck.raised = "project_deleted"
          /\ (/\ checker.cached_project_status = "active"
              /\ checker.cached_job_status = "cancelled") =>
                lastCheck.raised = "job_cancelled"
          /\ (/\ checker.cached_project_status = "active"
              /\ checker.cached_job_status = "failed") =>
                lastCheck.raised = "job_failed"
    /\ Refreshed =>
          /\ (/\ lastCheck.job.cancellation_requested
              /\ lastCheck.job.status # "cancelled") =>
                checker.cached_job_status = "cancelled"
          /\ lastCheck.project_status # "active" =>
                lastCheck.raised = "project_deleted"
          /\ (/\ lastCheck.project_status = "active"
              /\ \/ lastCheck.job.cancellation_requested
                 \/ lastCheck.job.status = "cancelled") =>
                lastCheck.raised = "job_cancelled"
          /\ (/\ lastCheck.project_status = "active"
              /\ ~lastCheck.job.cancellation_requested
              /\ lastCheck.job.status = "failed") =>
                lastCheck.raised = "job_failed"

\* a refresh found a project that is not active and a failed job with a
\* pending cancellation request: all three conditions at once
C23_Witness ==
    /\ Refreshed
    /\ lastCheck.project_status # "active"
    /\ lastCheck.job.status = "failed"
    /\ lastCheck.job.cancellation_requested
    /\ checker.cached_job_status = "cancelled"
    /\ lastCheck.raised = "project_deleted"

\* ------------------------------------------------------------------------
\* C24: the checker reads the job and project status from the store on every
\* call whose number is a multiple of N = 10 and on no other call (the cache
\* is the same before and after any other call); so, while the store holds a
\* reason to stop (project not active, or cancellation of the job requested)
\* and no refresh fails, at most N calls in a row return without raising.
\* ------------------------------------------------------------------------
C24_RefreshEveryNthCall ==
    lastCheck # Nothing =>
        /\ lastCheck.call % RefreshInterval # 0 =>
              /\ checker.cached_job_status = lastCheck.before_job_status
              /\ checker.cached_project_status =
                     lastCheck.before_project_status
        /\ Refreshed =>
              /\ checker.cached_project_status = lastCheck.project_status
              /\ checker.cached_job_status =
                     IF /\ lastCheck.job.cancellation_requested
                        /\ lastCheck.job.status # "cancelled"
                     THEN "cancelled"
                     ELSE lastCheck.job.status
        /\ ~lastCheck.refresh_failed => lastCheck.quiet <= RefreshInterval

\* the reason to stop was stored right after a refresh: the nine calls up to
\* the next refresh have all returned
C24_Witness ==
    /\ lastCheck # Nothing
    /\ lastCheck.call = 2 * RefreshInterval - 1
    /\ lastCheck.quiet = RefreshInterval - 1
    /\ ~lastCheck.refresh_failed

\* ------------------------------------------------------------------------
\* C25: when the refresh inside check_cancellation fails, the outcome of the
\* call is the one the cache held before the refresh attempt gives.
\* ------------------------------------------------------------------------
C25_FailedRefreshDecidesFromStaleCache ==
    (lastCheck # Nothing /\ lastCheck.fault # "none") =>
        lastCheck.raised =
            Raised([cached_job_status |-> lastCheck.before_job_status,
                    cached_project_status |->
                        lastCheck.before_project_status])

ContentChunks(j) ==
    Sum([i \in 1..Len(urls[j]) |-> urls[j][i].content_chunks], Len(urls[j]))

C27_ReingestionAddsNoPoints ==
    \A j \in JobIds : qdrant[j].points <= ContentChunks(j)

\* ------------------------------------------------------------------------
\* C28: no two URL rows of a job have the same url_hash, whatever links the
\* homepage lists (the same link twice included) and whatever content the
\* fetches return.
\* ------------------------------------------------------------------------
C28_UrlHashUniqueInJob ==
    scraper # Nothing =>
        \A i, k \in 1..Len(scraper.rows) :
            i # k => scraper.rows[i].url_hash # scraper.rows[k].url_hash

\* ------------------------------------------------------------------------
\* C29: the progress stream carries at most one terminal frame (complete,
\* error or timeout) and no frame follows a terminal frame.
\* ------------------------------------------------------------------------
TerminalFrames == {"complete", "error", "timeout"}

C29_OneTerminalFrameLast ==
    stream # Nothing =>
        \A i \in 1..Len(stream.frames) :
            stream.frames[i].event_type \in TerminalFrames =>
                i = Len(stream.frames)

\* ------------------------------------------------------------------------
\* C30: a job whose status is completed, failed or cancelled keeps that
\* status in every later step of the discovery and ingestion tasks, their
\* failure handlers, the stale-job sweep and cancellation requests.
\* ------------------------------------------------------------------------
C30_TerminalStatusAbsorbing ==
    [][\A j \in JobIds :
          (jobs[j] # Nothing /\ jobs[j].status \in TerminalStatuses) =>
              jobs'[j].status = jobs[j].status]_vars

\* ------------------------------------------------------------------------
\* C31: once initiate_deletion has succeeded for the project (the project
\* is no longer active and no initiate_deletion call is in flight), every
\* job of the project whose status is queued or running has
\* cancellation_requested set, in every later state.
\* ------------------------------------------------------------------------
C31_DeletingProjectJobsCancelled ==
    (project.status # "active" /\ deletion = "none") =>
        \A j \in JobIds :
            (jobs[j] # Nothing /\ jobs[j].status \in {"queued", "running"}) =>
                jobs[j].cancellation_requested

\* C32: the project's status only moves active -> deleting -> deleted, never
\* back, and it becomes deleted only while the project has no queued or
\* running job
C32_ProjectLifecycleForward ==
    [][project'.status # project.status =>
          /\ <<project.status, project'.status>> \in
                 {<<"active", "deleting">>, <<"deleting", "deleted">>}
          /\ project'.status = "deleted" =>
                 \A j \in JobIds :
                     jobs[j] = Nothing
                     \/ jobs[j].status \notin {"queued", "running"}]_vars

\* C33: a status request leaves every job row and every URL row as it found
\* them, whichever of get_job_status (with get_job_progress),
\* update_job_progress and the health check it is
C33_ReadersNeverWrite ==
    lastStatus # Nothing =>
        /\ lastStatus.jobs_after = lastStatus.jobs_before
        /\ lastStatus.urls_after = lastStatus.urls_before

\* C34: the error_details list of a job only grows: after every step the
\* list it held before is a prefix of the list it holds
C34_ErrorDetailsOnlyGrow ==
    [][\A j \in JobIds :
           (jobs[j] # Nothing /\ jobs'[j] # Nothing) =>
               LET old == jobs[j].error_details
                   new == jobs'[j].error_details
               IN  /\ Len(old) <= Len(new)
                   /\ SubSeq(new, 1, Len(old)) = old]_vars

\* the rule whose failure gives each refusal reason
RefusingRule(reason) ==
    CASE reason = "NO_CONTEXT" -> "require_context"
      [] reason = "CROSS_TENANT" -> "tenant_isolation"
      [] reason = "OUT_OF_SCOPE" -> "intent_filtering"
      [] reason = "INSUFFICIENT_CONFIDENCE" -> "confidence_threshold"

RuleChain ==
    <<"require_context", "tenant_isolation", "intent_filtering",
      "confidence_threshold", "policy_quote_only", "attribution_required">>

\* position of a rule in the chain
ChainIndex(name) == CHOOSE i \in 1..Len(RuleChain) : RuleChain[i] = name

\* C35: rules_applied of a decision lists rules of the chain in chain order,
\* and for a REFUSE it does not list the rule that failed
C35_RulesAppliedOnlyPassed ==
    lastEval # Nothing =>
        LET out == lastEval.out
            applied == out.rules_applied
        IN  /\ \A i \in 1..Len(applied) :
                   \E k \in 1..Len(RuleChain) : RuleChain[k] = applied[i]
            /\ \A i, k \in 1..Len(applied) :
                   i < k => ChainIndex(applied[i]) < ChainIndex(applied[k])
            /\ out.decision = "REFUSE" =>
                   \A i \in 1..Len(applied) :
                       applied[i] # RefusingRule(out.reason)

\* the decision the context, tenant and confidence gates alone give
DecisionWithoutIntentGate(self, chunks, tenant_id) ==
    LET high == _filter_by_confidence(self, chunks, DefaultThreshold)
    IN  IF chunks = <<>> THEN <<"REFUSE", "NO_CONTEXT", <<>> >>
        ELSE IF _check_tenant_isolation(self, chunks, tenant_id)
        THEN <<"REFUSE", "CROSS_TENANT", <<>> >>
        ELSE IF high = <<>> THEN <<"REFUSE", "INSUFFICIENT_CONFIDENCE", <<>> >>
        ELSE <<"ANSWER", NoValue, high>>

\* C36: with an empty allowed_intents the intent filter returns its input,
\* no decision is OUT_OF_SCOPE, and the decision is the one the context,
\* tenant and confidence gates give
C36_EmptyIntentsNoRestriction ==
    (lastEval # Nothing /\ engine.allowed_intents = {}) =>
        /\ _filter_by_intent(engine, lastEval.chunks) = lastEval.chunks
        /\ lastEval.out.reason # "OUT_OF_SCOPE"
        /\ <<lastEval.out.decision, lastEval.out.reason,
             lastEval.out.allowed_context>> =
               DecisionWithoutIntentGate(engine, lastEval.chunks,
                                         lastEval.tenant_id)

\* an engine without allowed intents answered from a chunk that carries an
\* intent and from one that carries none
C36_Witness ==
    /\ lastEval # Nothing
    /\ engine.allowed_intents = {}
    /\ lastEval.out.decision = "ANSWER"
    /\ \E i \in 1..Len(lastEval.chunks) :
           "intent" \notin DOMAIN lastEval.chunks[i]
    /\ \E i \in 1..Len(lastEval.chunks) :
           "intent" \in DOMAIN lastEval.chunks[i]

\* the percentages of the progress frames a stream has emitted
FramePercentages ==
    IF stream = Nothing THEN {}
    ELSE {stream.frames[i].progress_percentage :
             i \in {k \in 1..Len(stream.frames) :
                       stream.frames[k].event_type = "progress"}}

\* C37: once total_chunks_created of a job is known its chunks_uploaded is
\* at most that total, and the progress_percentage of the job status query
\* and of every progress frame of the stream lies between 0 and 100
C37_UploadedAtMostCreated ==
    /\ \A j \in JobIds :
           jobs[j] # Nothing =>
               /\ jobs[j].total_chunks_created # Null =>
                      jobs[j].chunks_uploaded <= jobs[j].total_chunks_created
               /\ get_job_status(jobs, urls, j).progress_percentage \in 0..100
    /\ FramePercentages \subseteq 0..100

\* the provider returned one vector for two chunks: the job completed with
\* one of two chunks uploaded, and the stream reported 50 percent
C37_Witness ==
    /\ \E j \in JobIds :
           /\ jobs[j] # Nothing
           /\ jobs[j].status = "completed"
           /\ jobs[j].total_chunks_created = 2
           /\ jobs[j].chunks_uploaded = 1
           /\ get_job_status(jobs, urls, j).progress_percentage = 50
    /\ 50 \in FramePercentages

\* C38: the report of update_job_progress for a job never has pages_processed
\* above the job's total_urls_discovered nor progress_percentage above 100
C38_PagesProcessedBounded ==
    (lastStatus # Nothing /\ lastStatus.op = "update_job_progress"
     /\ lastStatus.response # Nothing) =>
        /\ lastStatus.response.pages_processed <=
               lastStatus.response.urls_discovered
        /\ lastStatus.response.progress_percentage <= 100

\* a _chunk_text call has returned
Returned == chunker # Nothing /\ chunker.pc = "returned"

\* token i of the input lies in a returned chunk
InSomeChunk(i) ==
    \E k \in 1..Len(chunker.slices) :
        chunker.slices[k][1] <= i /\ i <= chunker.slices[k][2]

\* no chunk built so far is longer than max_chunk_size, and the loop has
\* taken at most one turn per token
ChunksBounded ==
    chunker # Nothing =>
        /\ \A k \in 1..Len(chunker.chunks) :
               Len(chunker.chunks[k]) <= chunker.self.max_chunk_size
        /\ chunker.iterations <= Len(chunker.tokens)

\* C39 as stated: with chunk_overlap < max_chunk_size the loop of
\* _chunk_text takes at most one turn per token, every chunk holds at most
\* max_chunk_size tokens, and every token of the input lies in a returned
\* chunk
C39_EveryTokenInSomeChunk ==
    /\ ChunksBounded
    /\ Returned => \A i \in 1..Len(chunker.tokens) : InSomeChunk(i)

\* C39, amended: every _chunk_text call with chunk_overlap < max_chunk_size
\* returns, every chunk holds at most max_chunk_size tokens, and every token
\* of the input that is not whitespace lies in a returned chunk; the chunks
\* returned by the loop are those of the operator _chunk_text
C39_ChunkTextReturnsAndCoversText ==
    /\ [](/\ ChunksBounded
          /\ Returned =>
                 /\ \A i \in 1..Len(chunker.tokens) :
                        ~IsSpace(chunker.tokens[i]) => InSomeChunk(i)
                 /\ chunker.chunks =
                        _chunk_text(chunker.self, chunker.tokens))
    /\ ((chunker # Nothing /\ chunker.pc = "loop") ~> Returned)

\* a call with an overlap returned three chunks of a text that holds a
\* whitespace token
C39_Witness ==
    /\ Returned
    /\ chunker.self.chunk_overlap > 0
    /\ chunker.iterations >= 3
    /\ Len(chunker.chunks) >= 3
    /\ \E i \in 1..Len(chunker.tokens) : IsSpace(chunker.tokens[i])

\* C40: for an input longer than max_chunk_size no returned chunk lies
\* wholly inside the chunk before it
C40_NoRedundantChunk ==
    (Returned /\ Len(chunker.tokens) > chunker.self.max_chunk_size) =>
        \A k \in 2..Len(chunker.slices) :
            ~(/\ chunker.slices[k - 1][1] <= chunker.slices[k][1]
              /\ chunker.slices[k][2] <= chunker.slices[k - 1][2])

====
